---- MODULE Spec2Model ----
(***************************************************************************)
(* Model of the Ableton-Hub project-file analyzer                          *)
(* (tests/analyze_als_structure.py, class ALSAnalyzer) and of the          *)
(* similarity analyzer that ui/widgets/recommendations_panel.py calls.     *)
(*                                                                         *)
(* Strings are sequences of tokens, so that the substring, split, strip    *)
(* and lower operations of the code are computed, not assumed: the tag     *)
(* "{urn:live}AudioTrack" is <<"{", "urn:live", "}", "Audio", "Track">>.   *)
(* Tempos are fixed-point numbers in hundredths of a BPM.                  *)
(***************************************************************************)
EXTENDS Integers, Sequences, FiniteSets, TLC

VARIABLES
    pc,          \* position of the program under analysis
    als,         \* content of the file given to analyze_file
    result,      \* the record analyze_file returns
    cmp_main,    \* main record handed to _compare_files
    cmp_backups, \* backup records handed to _compare_files
    comparison,  \* the dict _compare_files returns
    project,     \* project folder: main file and discovered backup files
    results,     \* the dict analyze_project builds
    unique_tags, \* ALSAnalyzer.unique_tags
    sim,         \* similarity analyzer: reference, candidate, weights, score
    similar,     \* find_similar_projects: pool, limits and the list returned
    recs,        \* recommendation engine: pool, exclusions and the set returned;
                 \* under SpecPanel the recommendations panel and the Project table
    names,       \* song name generator: the batch and the words it has used
    checker,     \* UpdateChecker: the reply and the signals emitted
    scan,        \* AudioScanWorker: the tree, the walk and the signals emitted;
                 \* under SpecView the exports view, its workers and the posted signals
    live         \* LiveDetector: the installations found

\* the services beside the analyzers
service_vars == <<similar, recs, names, checker, scan, live>>

vars ==
    <<pc, als, result, cmp_main, cmp_backups, comparison, project, results,
      unique_tags, sim, similar, recs, names, checker, scan, live>>

----------------------------------------------------------------------------
(* Python values *)

\* None, for a value that is otherwise a string
NoneStr == [has |-> FALSE, v |-> <<>>]

Str(s) == [has |-> TRUE, v |-> s]

\* None, for a value that is otherwise a float
NoneNum == [has |-> FALSE, v |-> 0]

Num(n) == [has |-> TRUE, v |-> n]

\* Python truth value of an optional string: None and "" are false
TruthyStr(o) == o.has /\ o.v # <<>>

\* Python truth value of an optional float: None and 0.0 are false
TruthyNum(o) == o.has /\ o.v # 0

\* a or b, on optional strings
OrStr(a, b) == IF TruthyStr(a) THEN a ELSE b

\* the empty dict {}
EmptyDict == [k \in {} |-> 0]

\* d.get(k, dflt)
Get(d, k, dflt) == IF k \in DOMAIN d THEN d[k] ELSE dflt

Abs(x) == IF x < 0 THEN -x ELSE x

----------------------------------------------------------------------------
(* _compare_files *)

\* tolerance of the tempo comparison, 0.1 BPM, in hundredths
TempoTolerance == 10

total_count_of(rec) ==
    Get(Get(Get(rec, "extractable_data", EmptyDict), "tracks", EmptyDict), "total_count", 0)

device_count_of(rec) ==
    Get(Get(Get(rec, "extractable_data", EmptyDict), "devices", EmptyDict), "device_count", 0)

plugin_count_of(rec) ==
    Get(Get(Get(rec, "extractable_data", EmptyDict), "plugins", EmptyDict), "plugin_count", 0)

tempo_of(rec) ==
    Get(Get(Get(rec, "extractable_data", EmptyDict), "project_info", EmptyDict), "tempo", NoneNum)

\* a mutated count test: an entry only when the backup has more than the main file
CountChangedGrew(backup_n, main_n) == backup_n > main_n

\* backup_x != main_x
CountChanged(backup_n, main_n) == backup_n # main_n

\* backup_tempo and main_tempo and abs(backup_tempo - main_tempo) > 0.1
TempoChanged(backup_tempo, main_tempo) ==
    /\ TruthyNum(backup_tempo)
    /\ TruthyNum(main_tempo)
    /\ Abs(backup_tempo.v - main_tempo.v) > TempoTolerance

\* what one turn of the loop over the backups appends to each list
track_entry(m, b) ==
    IF CountChanged(total_count_of(b), total_count_of(m))
    THEN <<[backup |-> b.file_path, tracks |-> total_count_of(b),
            main_tracks |-> total_count_of(m)]>>
    ELSE <<>>

device_entry(m, b) ==
    IF CountChanged(device_count_of(b), device_count_of(m))
    THEN <<[backup |-> b.file_path, devices |-> device_count_of(b),
            main_devices |-> device_count_of(m)]>>
    ELSE <<>>

plugin_entry(m, b) ==
    IF CountChanged(plugin_count_of(b), plugin_count_of(m))
    THEN <<[backup |-> b.file_path, plugins |-> plugin_count_of(b),
            main_plugins |-> plugin_count_of(m)]>>
    ELSE <<>>

timing_entry(m, b) ==
    IF TempoChanged(tempo_of(b), tempo_of(m))
    THEN <<[backup |-> b.file_path, tempo |-> tempo_of(b).v,
            main_tempo |-> tempo_of(m).v]>>
    ELSE <<>>

\* the loop over backups[i..], appending to the lists of acc
RECURSIVE compare_loop(_, _, _, _)
compare_loop(m, bs, i, acc) ==
    IF i > Len(bs) THEN acc
    ELSE compare_loop(m, bs, i + 1,
            [version_changes |-> acc.version_changes,
             track_changes   |-> acc.track_changes \o track_entry(m, bs[i]),
             device_changes  |-> acc.device_changes \o device_entry(m, bs[i]),
             plugin_changes  |-> acc.plugin_changes \o plugin_entry(m, bs[i]),
             timing_changes  |-> acc.timing_changes \o timing_entry(m, bs[i])])

compare_files(m, bs) ==
    compare_loop(m, bs, 1,
        [version_changes |-> <<>>, track_changes |-> <<>>, device_changes |-> <<>>,
         plugin_changes |-> <<>>, timing_changes |-> <<>>])

----------------------------------------------------------------------------
(* Inputs of the comparator: analysis records as analyze_file leaves them *)

\* most backup records handed to one comparison
MaxBackups == 2

\* tempos a record can carry: absent, 0.0, 120.0, 120.05, 120.1, 125.0
TempoValues == {NoneNum, Num(0), Num(12000), Num(12005), Num(12010), Num(12500)}

\* counts a record can carry
CountValues == {0, 1}

\* a record of a file whose analysis failed: no extractable data at all
FailedRecord(path) == [file_path |-> path, extractable_data |-> EmptyDict]

DataRecord(path, t, d, p, tempo) ==
    [file_path |-> path,
     extractable_data |->
        [tracks |-> [total_count |-> t],
         devices |-> [device_count |-> d],
         plugins |-> [plugin_count |-> p],
         project_info |-> [tempo |-> tempo]]]

\* records that differ in their counts, and records that differ in their tempo
CmpRecords(path) ==
    {FailedRecord(path)}
    \cup {DataRecord(path, t, d, p, Num(12000)) :
             t \in CountValues, d \in CountValues, p \in CountValues}
    \cup {DataRecord(path, 1, 1, 0, tempo) : tempo \in TempoValues}

\* the value of a variable the specification at hand does not use
Idle == <<>>

\* no service is at work
ServicesIdle ==
    /\ similar = Idle /\ recs = Idle /\ names = Idle
    /\ checker = Idle /\ scan = Idle /\ live = Idle

\* the backup lists of length n: the i-th record carries the i-th path
CmpBackupLists(n) ==
    {bs \in [1..n -> UNION {CmpRecords(i) : i \in 1..n}] :
        \A i \in 1..n : bs[i].file_path = i}

InitCompare ==
    /\ pc = "compare"
    /\ cmp_main \in CmpRecords(0)
    /\ \E n \in 0..MaxBackups : cmp_backups \in CmpBackupLists(n)
    /\ comparison = EmptyDict
    /\ ServicesIdle
    /\ als = Idle /\ result = Idle /\ project = Idle /\ results = Idle
    /\ unique_tags = {} /\ sim = Idle

\* comparison = self._compare_files(main, backups)
Compare ==
    /\ pc = "compare"
    /\ comparison' = compare_files(cmp_main, cmp_backups)
    /\ pc' = "compared"
    /\ UNCHANGED service_vars
    /\ UNCHANGED <<als, result, cmp_main, cmp_backups, project, results, unique_tags, sim>>

NextCompare == Compare

SpecCompare == InitCompare /\ [][NextCompare]_vars

----------------------------------------------------------------------------
(* Strings: sequences of tokens *)

\* needle in s
Contains(s, needle) ==
    \E i \in 0..(Len(s) - Len(needle)) : SubSeq(s, i + 1, i + Len(needle)) = needle

\* position of the last "}" of a tag, 0 when it has none
LastBrace(tag) ==
    IF \E i \in 1..Len(tag) : tag[i] = "}"
    THEN CHOOSE i \in 1..Len(tag) : tag[i] = "}" /\ \A j \in (i + 1)..Len(tag) : tag[j] # "}"
    ELSE 0

\* a mutated tag rule: the tag is compared as it stands, namespace and all
RawName(tag) == tag

\* tag.split('}')[-1] if '}' in tag else tag
LocalName(tag) == SubSeq(tag, LastBrace(tag) + 1, Len(tag))

\* one token of a tag, lower-cased
LowerTok(t) ==
    CASE t = "Backup" -> "backup"
      [] t = "Export" -> "export"
      [] t = "Log"    -> "log"
      [] t = "Scene"  -> "scene"
      [] t = "Audio"  -> "audio"
      [] t = "Midi"   -> "midi"
      [] t = "Return" -> "return"
      [] t = "Group"  -> "group"
      [] t = "Master" -> "master"
      [] t = "Track"  -> "track"
      [] t = "Device" -> "device"
      [] t = "Chain"  -> "chain"
      [] t = "Plugin" -> "plugin"
      [] t = "User"   -> "user"
      [] t = "Name"   -> "name"
      [] t = "Path"   -> "path"
      [] t = "File"   -> "file"
      [] t = "Ref"    -> "ref"
      [] t = "Clip"   -> "clip"
      [] t = "Slot"   -> "slot"
      [] t = "Tempo"  -> "tempo"
      [] t = "Manual" -> "manual"
      [] t = "Light"  -> "light"
      [] t = "Void"   -> "void"
      [] t = "Ember"  -> "ember"
      [] t = "Synthetic" -> "synthetic"
      [] t = "Again"  -> "again"
      [] t = "First"  -> "first"
      [] t = "In"     -> "in"
      [] t = "The"    -> "the"
      [] t = ".MSI"   -> ".msi"
      [] t = ".WAV"   -> ".wav"
      [] t = ".DMG"   -> ".dmg"
      [] t = "Ableton" -> "ableton"
      [] t = "Automation" -> "automation"
      [] t = "Lane"   -> "lane"
      [] t = "Point"  -> "point"
      [] t = "Render" -> "render"
      [] t = "Settings" -> "settings"
      [] t = "History" -> "history"
      [] t = "Dir"    -> "dir"
      [] t = "Folder" -> "folder"
      [] t = ".VST"   -> ".vst"
      [] OTHER        -> t

\* s.lower()
Lower(s) == [i \in 1..Len(s) |-> LowerTok(s[i])]

IsSpace(t) == t = " "

\* s.lstrip()
RECURSIVE LStrip(_)
LStrip(s) == IF s # <<>> /\ IsSpace(Head(s)) THEN LStrip(Tail(s)) ELSE s

\* s.rstrip()
RECURSIVE RStrip(_)
RStrip(s) ==
    IF s # <<>> /\ IsSpace(s[Len(s)]) THEN RStrip(SubSeq(s, 1, Len(s) - 1)) ELSE s

\* s.strip()
Strip(s) == RStrip(LStrip(s))

\* float(s), in hundredths: [ok |-> FALSE] stands for ValueError
FloatOf(s) ==
    LET t == Strip(s) IN
    IF Len(t) = 1 /\ t[1] \in {"0", "120", "120.05", "125"}
    THEN [ok |-> TRUE,
          v |-> CASE t[1] = "0" -> 0
                  [] t[1] = "120" -> 12000
                  [] t[1] = "120.05" -> 12005
                  [] t[1] = "125" -> 12500]
    ELSE [ok |-> FALSE, v |-> 0]

----------------------------------------------------------------------------
(* The element tree: the elements in document order, each with the index of *)
(* its parent (0 for the root), its Value attribute and its text            *)

Elem(tag, parent, value, text) ==
    [tag |-> tag, parent |-> parent, Value |-> value, text |-> text]

\* the last element of the subtree of element i
SubtreeEnd(doc, i) ==
    LET after == {k \in (i + 1)..Len(doc) : doc[k].parent < i} IN
    IF after = {} THEN Len(doc)
    ELSE (CHOOSE k \in after : \A l \in after : k <= l) - 1

\* elem.iter(): the element itself and its descendants, in document order
Iter(doc, i) == [k \in 1..(SubtreeEnd(doc, i) - i + 1) |-> i + k - 1]

\* the set of a sequence's elements
Range(s) == {s[k] : k \in 1..Len(s)}

\* the sequence of the indices of a set, ascending
RECURSIVE Ascending(_)
Ascending(S) ==
    IF S = {} THEN <<>>
    ELSE LET m == CHOOSE k \in S : \A l \in S : k <= l IN <<m>> \o Ascending(S \ {m})

\* list(elem): the children of element i, in document order
Children(doc, i) == Ascending({k \in 1..Len(doc) : doc[k].parent = i})

\* depth of element i below the root
RECURSIVE Depth(_, _)
Depth(doc, i) == IF doc[i].parent = 0 THEN 0 ELSE 1 + Depth(doc, doc[i].parent)

\* elem.find('.//' + name): the first descendant whose tag is name, 0 for None
Find(doc, i, name) ==
    LET hits == {k \in (i + 1)..SubtreeEnd(doc, i) : doc[k].tag = name} IN
    IF hits = {} THEN 0 ELSE CHOOSE k \in hits : \A l \in hits : k <= l

\* elem.get('Value')
GetValue(doc, i) == doc[i].Value

\* elem.get('Value') or elem.text
ValueOrText(doc, i) == OrStr(doc[i].Value, doc[i].text)

----------------------------------------------------------------------------
(* The extractors of ALSAnalyzer.  Each is the loop of the code over          *)
(* root.iter(); XxxStep is the body of the loop for one element.              *)

\* the least element of a non-empty set of indices
Least(S) == CHOOSE k \in S : \A l \in S : k <= l

\* sum(len(list(child)) for child in ...), over the elements its[j..]
RECURSIVE SumChildren(_, _, _)
SumChildren(doc, its, j) ==
    IF j > Len(its) THEN 0
    ELSE Len(Children(doc, its[j])) + SumChildren(doc, its, j + 1)

\* 'Name' in tag or 'UserName' in tag
IsNameTag(tag) == Contains(tag, <<"Name">>) \/ Contains(tag, <<"User", "Name">>)

\* name_val and name_val.strip()
HasStrippedText(o) == TruthyStr(o) /\ Strip(o.v) # <<>>

\* _extract_track_info: the name is that of the first element of the track's
\* subtree whose tag contains 'Name' and whose value is not blank
extract_track_info(doc, i, track_type) ==
    LET its == Iter(doc, i)
        named == {k \in Range(its) :
                    IsNameTag(doc[k].tag) /\ HasStrippedText(ValueOrText(doc, k))}
        chains == SelectSeq(its, LAMBDA k :
                    \/ Contains(doc[k].tag, <<"Device", "Chain">>)
                    \/ Contains(doc[k].tag, <<"Device", "s">>))
    IN  [type |-> track_type,
         name |-> IF named = {} THEN NoneStr
                  ELSE Str(Strip(ValueOrText(doc, Least(named)).v)),
         device_count |-> SumChildren(doc, chains, 1)]

\* not a track_info: the value of master_track before a MasterTrack is met
NoTrack == [type |-> "none", name |-> NoneStr, device_count |-> 0]

TracksInit ==
    [audio_tracks |-> <<>>, midi_tracks |-> <<>>, return_tracks |-> <<>>,
     group_tracks |-> <<>>, master_track |-> NoTrack, total_count |-> 0]

TracksStep(doc, k, acc) ==
    LET tag == LocalName(doc[k].tag) IN
    CASE tag = <<"Audio", "Track">> ->
            [acc EXCEPT !.audio_tracks = Append(@, extract_track_info(doc, k, "audio")),
                        !.total_count = @ + 1]
      [] tag = <<"Midi", "Track">> ->
            [acc EXCEPT !.midi_tracks = Append(@, extract_track_info(doc, k, "midi")),
                        !.total_count = @ + 1]
      [] tag = <<"Return", "Track">> ->
            [acc EXCEPT !.return_tracks = Append(@, extract_track_info(doc, k, "return")),
                        !.total_count = @ + 1]
      [] tag = <<"Group", "Track">> ->
            [acc EXCEPT !.group_tracks = Append(@, extract_track_info(doc, k, "group")),
                        !.total_count = @ + 1]
      [] tag = <<"Master", "Track">> ->
            [acc EXCEPT !.master_track = extract_track_info(doc, k, "master")]
      [] OTHER -> acc

DevicesInit == [device_types |-> {}, device_names |-> <<>>, device_count |-> 0]

\* a loop body that passes over a device lying inside another device
DevicesStepOutermost(doc, k, acc) ==
    LET tag == LocalName(doc[k].tag)
        IsDeviceTag(t) == Contains(LocalName(t), <<"Device">>) /\ LocalName(t) # <<"Device", "Chain">>
    IN  IF IsDeviceTag(doc[k].tag)
           /\ ~\E a \in 1..(k - 1) : IsDeviceTag(doc[a].tag) /\ k <= SubtreeEnd(doc, a)
        THEN [acc EXCEPT !.device_types = @ \cup {tag}, !.device_count = @ + 1]
        ELSE acc

\* the name of a device: the Value of the first element of its subtree whose tag
\* contains 'UserName' and whose Value is not empty
DevicesStep(doc, k, acc) ==
    LET tag == LocalName(doc[k].tag)
        named == {n \in Range(Iter(doc, k)) :
                    Contains(doc[n].tag, <<"User", "Name">>) /\ TruthyStr(GetValue(doc, n))}
    IN  IF Contains(tag, <<"Device">>) /\ tag # <<"Device", "Chain">>
        THEN [device_types |-> acc.device_types \cup {tag},
              device_names |-> IF named = {} THEN acc.device_names
                               ELSE Append(acc.device_names, GetValue(doc, Least(named)).v),
              device_count |-> acc.device_count + 1]
        ELSE acc

PluginsInit ==
    [vst_plugins |-> <<>>, au_plugins |-> <<>>, plugin_paths |-> <<>>, plugin_count |-> 0]

\* the loop over the subtree of a plugin element, its[j..]
RECURSIVE PluginPaths(_, _, _, _)
PluginPaths(doc, its, j, acc) ==
    IF j > Len(its) THEN acc
    ELSE LET val == GetValue(doc, its[j])
             low == Lower(val.v)
         IN  PluginPaths(doc, its, j + 1,
                IF Contains(doc[its[j]].tag, <<"Path">>) /\ TruthyStr(val)
                THEN [acc EXCEPT
                        !.plugin_paths = Append(@, val.v),
                        !.vst_plugins =
                            IF Contains(low, <<".vst">>) \/ Contains(low, <<".dll">>)
                            THEN Append(@, val.v) ELSE @,
                        !.au_plugins =
                            IF /\ ~(Contains(low, <<".vst">>) \/ Contains(low, <<".dll">>))
                               /\ (Contains(low, <<".component">>) \/ Contains(low, <<".au">>))
                            THEN Append(@, val.v) ELSE @]
                ELSE acc)

PluginsStep(doc, k, acc) ==
    LET tag == LocalName(doc[k].tag) IN
    IF \/ Contains(tag, <<"Plugin", "Device">>)
       \/ Contains(tag, <<"Vst", "Plugin">>)
       \/ Contains(tag, <<"Au", "Plugin">>)
    THEN PluginPaths(doc, Iter(doc, k), 1, [acc EXCEPT !.plugin_count = @ + 1])
    ELSE acc

SamplesInit ==
    [sample_paths |-> <<>>, sample_count |-> 0, relative_paths |-> <<>>,
     absolute_paths |-> <<>>]

\* path_val.startswith('/') or ':' in path_val
IsAbsoluteSample(path) == Head(path) = "/" \/ Contains(path, <<":">>)

\* a mutated sample loop: the counter is raised for every child of the file
\* reference, whether or not it carries a path
RECURSIVE SamplePathsCountAll(_, _, _, _)
SamplePathsCountAll(doc, cs, j, acc) ==
    IF j > Len(cs) THEN acc
    ELSE LET val == ValueOrText(doc, cs[j]) IN
         SamplePathsCountAll(doc, cs, j + 1,
            [acc EXCEPT
                !.sample_paths =
                    IF Contains(doc[cs[j]].tag, <<"Path">>) /\ TruthyStr(val)
                    THEN Append(@, val.v) ELSE @,
                !.sample_count = @ + 1])

\* the loop over the children of a file reference, cs[j..]
RECURSIVE SamplePaths(_, _, _, _)
SamplePaths(doc, cs, j, acc) ==
    IF j > Len(cs) THEN acc
    ELSE LET val == ValueOrText(doc, cs[j]) IN
         SamplePaths(doc, cs, j + 1,
            IF /\ \/ Contains(doc[cs[j]].tag, <<"Path">>)
                  \/ Contains(doc[cs[j]].tag, <<"Relative", "Path">>)
               /\ TruthyStr(val)
            THEN [acc EXCEPT
                    !.sample_paths = Append(@, val.v),
                    !.sample_count = @ + 1,
                    !.absolute_paths = IF IsAbsoluteSample(val.v) THEN Append(@, val.v) ELSE @,
                    !.relative_paths = IF IsAbsoluteSample(val.v) THEN @ ELSE Append(@, val.v)]
            ELSE acc)

SamplesStep(doc, k, acc) ==
    LET tag == LocalName(doc[k].tag) IN
    IF \/ Contains(tag, <<"File", "Ref">>)
       \/ Contains(tag, <<"Sample", "Ref">>)
       \/ Contains(tag, <<"Original", "File", "Ref">>)
    THEN SamplePaths(doc, Children(doc, k), 1, acc)
    ELSE acc

ClipsInit == [audio_clips |-> 0, midi_clips |-> 0, clip_names |-> <<>>, clip_count |-> 0]

ClipsStep(doc, k, acc) ==
    LET tag == LocalName(doc[k].tag)
        counted ==
            IF Contains(tag, <<"Audio", "Clip">>)
            THEN [acc EXCEPT !.audio_clips = @ + 1, !.clip_count = @ + 1]
            ELSE IF Contains(tag, <<"Midi", "Clip">>)
            THEN [acc EXCEPT !.midi_clips = @ + 1, !.clip_count = @ + 1]
            ELSE acc
        named == {n \in Range(Iter(doc, k)) :
                    Contains(doc[n].tag, <<"Name">>) /\ HasStrippedText(ValueOrText(doc, n))}
    IN  IF Contains(tag, <<"Clip">>) /\ named # {}
        THEN [counted EXCEPT
                !.clip_names = Append(@, Strip(ValueOrText(doc, Least(named)).v))]
        ELSE counted

AutomationInit ==
    [has_automation |-> FALSE, automation_lanes |-> 0, automation_points |-> 0]

AutomationStep(doc, k, acc) ==
    LET tag == LocalName(doc[k].tag) IN
    [has_automation |-> acc.has_automation \/ Contains(tag, <<"Automation">>),
     automation_lanes |->
        acc.automation_lanes + IF Contains(tag, <<"Automation", "Lane">>) THEN 1 ELSE 0,
     automation_points |->
        acc.automation_points + IF Contains(tag, <<"Automation", "Point">>) THEN 1 ELSE 0]

\* d[key] = value
DictSet(d, key, value) ==
    [x \in DOMAIN d \cup {key} |-> IF x = key THEN value ELSE d[x]]

\* {child.tag: (child.get('Value') or child.text) for child in elem}, over cs[j..]
RECURSIVE ChildDict(_, _, _, _)
ChildDict(doc, cs, j, acc) ==
    IF j > Len(cs) THEN acc
    ELSE ChildDict(doc, cs, j + 1, DictSet(acc, doc[cs[j]].tag, ValueOrText(doc, cs[j])))

ExportInit ==
    [export_logs |-> <<>>, render_settings |-> EmptyDict, export_directory |-> NoneStr,
     export_count |-> 0]

\* the loop over the children of a render-settings element, cs[j..]
RECURSIVE RenderSettings(_, _, _, _)
RenderSettings(doc, cs, j, acc) ==
    IF j > Len(cs) THEN acc
    ELSE LET key == LocalName(doc[cs[j]].tag)
             value == ValueOrText(doc, cs[j])
         IN  RenderSettings(doc, cs, j + 1,
                IF TruthyStr(value)
                THEN [acc EXCEPT
                        !.render_settings = DictSet(@, key, value.v),
                        !.export_directory =
                            IF \/ Contains(Lower(key), <<"path">>)
                               \/ Contains(Lower(key), <<"dir">>)
                               \/ Contains(Lower(key), <<"folder">>)
                            THEN value ELSE @]
                ELSE acc)

ExportStep(doc, k, acc) ==
    LET tag_lower == Lower(doc[k].tag)
        logged ==
            IF \/ Contains(tag_lower, <<"export", "log">>)
               \/ Contains(tag_lower, <<"export", "history">>)
            THEN [acc EXCEPT
                    !.export_logs = Append(@,
                        [tag |-> doc[k].tag,
                         children |-> ChildDict(doc, Children(doc, k), 1, EmptyDict)]),
                    !.export_count = @ + 1]
            ELSE acc
    IN  IF \/ Contains(tag_lower, <<"audio", "render", "settings">>)
           \/ Contains(tag_lower, <<"render", "settings">>)
        THEN RenderSettings(doc, Children(doc, k), 1, logged)
        ELSE logged

BackupInit == [backup_references |-> <<>>, backup_count |-> 0]

BackupStep(doc, k, acc) ==
    IF Contains(Lower(doc[k].tag), <<"backup">>)
    THEN [backup_references |->
            Append(acc.backup_references, [tag |-> doc[k].tag, text |-> doc[k].text]),
          backup_count |-> acc.backup_count + 1]
    ELSE acc

ProjectInfoInit ==
    [name |-> NoneStr, annotation |-> NoneStr, tempo |-> NoneNum,
     time_signature |-> NoneStr, arrangement_length |-> NoneNum, scenes |-> <<>>,
     scene_count |-> 0]

\* the tempo loop: a ValueError of float() leaves the tempo as it was
TempoStep(doc, k, acc) ==
    LET manual == Find(doc, k, <<"Manual">>) IN
    IF /\ Contains(doc[k].tag, <<"Tempo">>)
       /\ manual # 0
       /\ TruthyStr(GetValue(doc, manual))
       /\ FloatOf(GetValue(doc, manual).v).ok
    THEN [acc EXCEPT !.tempo = Num(FloatOf(GetValue(doc, manual).v).v)]
    ELSE acc

\* elem.get('Value', '4')
ValueOr4(doc, i) == IF doc[i].Value.has THEN doc[i].Value.v ELSE <<"4">>

TimeSignatureStep(doc, k, acc) ==
    LET numerator == Find(doc, k, <<"Numerator">>)
        denominator == Find(doc, k, <<"Denominator">>)
    IN  IF /\ Contains(doc[k].tag, <<"Time", "Signature">>)
           /\ numerator # 0
           /\ denominator # 0
        THEN [acc EXCEPT !.time_signature =
                Str(ValueOr4(doc, numerator) \o <<"/">> \o ValueOr4(doc, denominator))]
        ELSE acc

AnnotationStep(doc, k, acc) ==
    IF Contains(doc[k].tag, <<"Annotation">>) /\ TruthyStr(ValueOrText(doc, k))
    THEN [acc EXCEPT !.annotation = ValueOrText(doc, k)]
    ELSE acc

\* the scene loop: the name is looked up in the first element of the scene's
\* subtree whose tag contains 'Name', whatever that element holds
ScenesStep(doc, k, acc) ==
    LET named == {n \in Range(Iter(doc, k)) : Contains(doc[n].tag, <<"Name">>)}
        scene_name == IF named = {} THEN NoneStr ELSE ValueOrText(doc, Least(named))
    IN  IF Contains(doc[k].tag, <<"Scene">>)
        THEN [acc EXCEPT
                !.scene_count = @ + 1,
                !.scenes = IF TruthyStr(scene_name) THEN Append(@, scene_name.v) ELSE @]
        ELSE acc

\* the body of the loop of extractor fn for element k
Step(fn, doc, k, acc) ==
    CASE fn = "tracks"         -> TracksStep(doc, k, acc)
      [] fn = "devices"        -> DevicesStep(doc, k, acc)
      [] fn = "plugins"        -> PluginsStep(doc, k, acc)
      [] fn = "samples"        -> SamplesStep(doc, k, acc)
      [] fn = "clips"          -> ClipsStep(doc, k, acc)
      [] fn = "automation"     -> AutomationStep(doc, k, acc)
      [] fn = "export_info"    -> ExportStep(doc, k, acc)
      [] fn = "backup_info"    -> BackupStep(doc, k, acc)
      [] fn = "tempo"          -> TempoStep(doc, k, acc)
      [] fn = "time_signature" -> TimeSignatureStep(doc, k, acc)
      [] fn = "annotation"     -> AnnotationStep(doc, k, acc)
      [] fn = "scenes"         -> ScenesStep(doc, k, acc)

\* for elem in root.iter(): the loop of extractor fn from element k on
RECURSIVE ForEach(_, _, _, _)
ForEach(fn, doc, k, acc) ==
    IF k > Len(doc) THEN acc ELSE ForEach(fn, doc, k + 1, Step(fn, doc, k, acc))

extract_tracks(doc) == ForEach("tracks", doc, 1, TracksInit)

extract_devices(doc) == ForEach("devices", doc, 1, DevicesInit)

extract_plugins(doc) == ForEach("plugins", doc, 1, PluginsInit)

extract_samples(doc) == ForEach("samples", doc, 1, SamplesInit)

extract_clips(doc) == ForEach("clips", doc, 1, ClipsInit)

extract_automation(doc) == ForEach("automation", doc, 1, AutomationInit)

extract_export_info(doc) == ForEach("export_info", doc, 1, ExportInit)

extract_backup_info(doc) == ForEach("backup_info", doc, 1, BackupInit)

extract_project_info(doc) ==
    ForEach("scenes", doc, 1,
        ForEach("annotation", doc, 1,
            ForEach("time_signature", doc, 1,
                ForEach("tempo", doc, 1, ProjectInfoInit))))

----------------------------------------------------------------------------
(* analyze_file *)

\* _extract_metadata; of the attributes of the root only the defaults are kept
extract_metadata(doc) ==
    LET base == [root_tag |-> doc[1].tag, ableton_version |-> <<"Unknown">>,
                 major_version |-> <<"Unknown">>, minor_version |-> <<"Unknown">>]
    IN  IF \E c \in Range(Children(doc, 1)) : Contains(doc[c].tag, <<"Live", "Set">>)
        THEN base @@ [liveset_attributes |-> EmptyDict]
        ELSE base

\* structure['element_counts'] over the elements k.. below the root
RECURSIVE ElementCounts(_, _, _)
ElementCounts(doc, k, acc) ==
    IF k > Len(doc) THEN acc
    ELSE ElementCounts(doc, k + 1,
            DictSet(acc, LocalName(doc[k].tag), Get(acc, LocalName(doc[k].tag), 0) + 1))

\* max(), of a set of naturals, 0 when empty
MaxOf(S) == IF S = {} THEN 0 ELSE CHOOSE m \in S : \A l \in S : l <= m

\* _analyze_structure: count_elements visits every element below the root
analyze_structure(doc) ==
    [top_level_elements |->
        [j \in 1..Len(Children(doc, 1)) |-> LocalName(doc[Children(doc, 1)[j]].tag)],
     element_counts |-> ElementCounts(doc, 2, EmptyDict),
     max_depth |-> MaxOf({Depth(doc, k) : k \in 2..Len(doc)}),
     total_elements |-> Len(doc) - 1]

\* the dict of the extractors; timing_info, file_references and preferences are
\* not modelled
extractable_data(doc) ==
    [tracks       |-> extract_tracks(doc),
     devices      |-> extract_devices(doc),
     plugins      |-> extract_plugins(doc),
     samples      |-> extract_samples(doc),
     clips        |-> extract_clips(doc),
     automation   |-> extract_automation(doc),
     export_info  |-> extract_export_info(doc),
     backup_info  |-> extract_backup_info(doc),
     project_info |-> extract_project_info(doc)]

\* an exception: its class and str(e)
Exc(type, msg) == [type |-> type, msg |-> msg]

\* the classes derived from OSError only
IsOSError(exc) == exc.type \in {"FileNotFoundError", "BadGzipFile"}

\* the classes `except Exception` catches
IsException(exc) ==
    exc.type \in {"FileNotFoundError", "BadGzipFile", "EOFError", "ParseError",
                  "RecursionError"}

\* with gzip.open(als_path, 'rb') as f: xml_data = f.read()
gzip_read(f) ==
    CASE f.kind = "missing" ->
            [ok |-> FALSE, exc |-> Exc("FileNotFoundError", "[Errno 2] No such file or directory")]
      [] f.kind = "not_gzip" ->
            [ok |-> FALSE, exc |-> Exc("BadGzipFile", "Not a gzipped file")]
      [] f.kind = "truncated_gzip" ->
            [ok |-> FALSE, exc |-> Exc("EOFError",
                "Compressed file ended before the end-of-stream marker was reached")]
      [] OTHER -> [ok |-> TRUE, exc |-> Exc("", "")]

\* root = ET.fromstring(xml_data)
fromstring(f) ==
    CASE f.kind = "bad_xml" ->
            [ok |-> FALSE, exc |-> Exc("ParseError", "not well-formed (invalid token)")]
      [] f.kind = "empty_payload" ->
            [ok |-> FALSE, exc |-> Exc("ParseError", "no element found")]
      [] OTHER -> [ok |-> TRUE, exc |-> Exc("", "")]

\* count_elements calls itself once per level of nesting: a document nested
\* deeper than the interpreter's recursion limit ends it with RecursionError
structure_raises(f) ==
    IF f.kind = "xml_deep"
    THEN [ok |-> FALSE, exc |-> Exc("RecursionError", "maximum recursion depth exceeded")]
    ELSE [ok |-> TRUE, exc |-> Exc("", "")]

\* a mutated set-up: the metadata starts with its defaults filled in
ResultInitDefaults(f) ==
    [file_path |-> f.path,
     file_size |-> IF f.kind # "missing" THEN f.size ELSE 0,
     modified_date |-> IF f.kind # "missing" THEN f.mtime ELSE 0,
     elements |-> EmptyDict,
     metadata |-> [ableton_version |-> <<"Unknown">>],
     structure |-> EmptyDict,
     extractable_data |-> EmptyDict]

\* the dict result as analyze_file sets it up before the try
ResultInit(f) ==
    [file_path |-> f.path,
     file_size |-> IF f.kind # "missing" THEN f.size ELSE 0,
     modified_date |-> IF f.kind # "missing" THEN f.mtime ELSE 0,
     elements |-> EmptyDict,
     metadata |-> EmptyDict,
     structure |-> EmptyDict,
     extractable_data |-> EmptyDict]

\* a mutated handler: except OSError
HandlerOSError(res, exc) ==
    IF IsOSError(exc)
    THEN [raised |-> FALSE, value |-> res @@ [error |-> exc.msg, traceback |-> exc]]
    ELSE [raised |-> TRUE, value |-> exc]

\* a mutated handler: the failure is reported with a fixed text
HandlerFixedText(res, exc) ==
    IF IsException(exc)
    THEN [raised |-> FALSE,
          value |-> res @@ [error |-> "analysis failed",
                            traceback |-> Exc("Exception", "analysis failed")]]
    ELSE [raised |-> TRUE, value |-> exc]

\* except Exception as e: result['error'] = str(e); result['traceback'] = ...
Handler(res, exc) ==
    IF IsException(exc)
    THEN [raised |-> FALSE, value |-> res @@ [error |-> exc.msg, traceback |-> exc]]
    ELSE [raised |-> TRUE, value |-> exc]

\* analyze_file: [raised |-> FALSE, value |-> the record returned], or
\* [raised |-> TRUE, value |-> the exception that leaves the function]
analyze_file(f) ==
    LET r0 == ResultInit(f)
        r1 == [r0 EXCEPT !.metadata = extract_metadata(f.doc)]
        r2 == [r1 EXCEPT !.structure = analyze_structure(f.doc)]
        r3 == [r2 EXCEPT !.extractable_data = extractable_data(f.doc)]
    IN  IF ~gzip_read(f).ok THEN Handler(r0, gzip_read(f).exc)
        ELSE IF ~fromstring(f).ok THEN Handler(r0, fromstring(f).exc)
        ELSE IF ~structure_raises(f).ok THEN Handler(r1, structure_raises(f).exc)
        ELSE [raised |-> FALSE, value |-> r3]

\* the raw tags of a document, as the loop over root.iter() adds them
TagsOf(f) == IF f.kind = "xml" THEN {f.doc[k].tag : k \in 1..Len(f.doc)} ELSE {}

----------------------------------------------------------------------------
(* Files given to analyze_file *)

\* most elements of a document below its root
MaxNodes == 2

\* "{uri}local"
Qualified(uri, local) == <<"{">> \o uri \o <<"}">> \o local

UriLive == <<"urn:", "live">>

UriOdd == <<"urn:", "Backup", "Scene", "Audio", "Track">>

\* the tag local, unqualified (uri empty) or qualified
Tag(uri, local) == IF uri = <<>> THEN local ELSE Qualified(uri, local)

\* an element before it is placed in a tree
Kind(tag, value, text) == [tag |-> tag, Value |-> value, text |-> text]

\* unqualified elements of every sort the extractors tell apart
StructKinds ==
    {Kind(t, NoneStr, NoneStr) :
        t \in {<<"Audio", "Track">>, <<"Plugin", "Device">>, <<"Device", "Chain">>,
               <<"File", "Ref">>, <<"Audio", "Clip">>, <<"Clip", "Slot">>, <<"Scene">>,
               <<"Export", "Log">>, <<"Backup">>, <<"Tempo">>}}
    \cup {Kind(<<"User", "Name">>, Str(<<"Lead">>), NoneStr),
          Kind(<<"User", "Name">>, NoneStr, Str(<<"Lead">>)),
          Kind(<<"Name">>, Str(<<" ", "Lead", " ">>), NoneStr),
          Kind(<<"Name">>, Str(<<>>), Str(<<" ">>)),
          Kind(<<"Path">>, Str(<<"x", ".VST">>), NoneStr),
          Kind(<<"Path">>, NoneStr, Str(<<"/", "a", ".wav">>)),
          Kind(<<"Manual">>, Str(<<"120">>), NoneStr),
          Kind(<<"Manual">>, Str(<<"abc">>), NoneStr)}

\* track and tempo elements, unqualified and namespace-qualified
NsKinds ==
    {Kind(Tag(uri, t), NoneStr, NoneStr) :
        uri \in {<<>>, UriLive, UriOdd},
        t \in {<<"Audio", "Track">>, <<"Midi", "Track">>, <<"Master", "Track">>}}
    \cup {Kind(Tag(uri, t), NoneStr, NoneStr) :
        uri \in {<<>>, UriLive},
        t \in {<<"Return", "Track">>, <<"Group", "Track">>, <<"Tempo">>}}
    \cup {Kind(Tag(uri, <<"Manual">>), Str(<<"120">>), NoneStr) : uri \in {<<>>, UriLive}}

\* device, clip and tempo elements: tags that hold the words the extractors
\* look for together with other words, and values held as text
FieldKinds ==
    {Kind(t, NoneStr, NoneStr) :
        t \in {<<"Plugin", "Device">>, <<"Device", "Chain">>, <<"Device", "s">>,
               Qualified(UriLive, <<"Plugin", "Device">>),
               Qualified(<<"urn:", "Device">>, <<"Audio", "Track">>),
               <<"Audio", "Clip">>, <<"Audio", "Clip", "Slot">>, <<"Midi", "Clip">>,
               <<"Tempo">>}}
    \cup {Kind(<<"Manual">>, NoneStr, Str(<<"120">>)),
          Kind(<<"Name">>, NoneStr, Str(<<"Lead">>))}

\* the elements i-1, parent of i-1, ..., root: where element i may hang
RECURSIVE RightmostPath(_, _)
RightmostPath(parents, i) ==
    IF i = 0 THEN {} ELSE {i} \cup RightmostPath(parents, parents[i])

\* the parent vectors of the trees of n elements, in document order
Shapes(n) ==
    {ps \in [1..n -> 0..(n - 1)] :
        /\ ps[1] = 0
        /\ \A i \in 2..n : ps[i] \in RightmostPath(ps, i - 1)}

\* the document with this root and the elements ks below it, hung as ps says
Doc(root, ks, ps) ==
    [i \in 1..(Len(ks) + 1) |->
        IF i = 1 THEN Elem(root, 0, NoneStr, NoneStr)
        ELSE Elem(ks[i - 1].tag, ps[i], ks[i - 1].Value, ks[i - 1].text)]

File(path, kind, doc) == [path |-> path, kind |-> kind, size |-> 1, mtime |-> 1, doc |-> doc]

\* what a file can hold other than a document: nothing readable, a payload that
\* is not markup, a document nested too deep to be walked
BadFiles(path) ==
    {File(path, kind, <<>>) :
        kind \in {"missing", "not_gzip", "truncated_gzip", "bad_xml", "empty_payload"}}
    \cup {File(path, "xml_deep", <<Elem(<<"Ableton">>, 0, NoneStr, NoneStr)>>)}

\* f is a file at path: a bad one, or a document of at most MaxNodes elements
\* below the root, all of StructKinds, all of NsKinds or all of FieldKinds
IsFile(f, path) ==
    \/ f \in BadFiles(path)
    \/ \E n \in 0..MaxNodes : \E ks \in [1..n -> StructKinds] : \E ps \in Shapes(n + 1) :
            f = File(path, "xml", Doc(<<"Ableton">>, ks, ps))
    \/ \E n \in 0..MaxNodes : \E ks \in [1..n -> NsKinds] : \E ps \in Shapes(n + 1) :
        \E uri \in {<<>>, UriLive} :
            f = File(path, "xml", Doc(Tag(uri, <<"Ableton">>), ks, ps))
    \/ \E n \in 0..MaxNodes : \E ks \in [1..n -> FieldKinds] : \E ps \in Shapes(n + 1) :
            f = File(path, "xml", Doc(<<"Ableton">>, ks, ps))

InitFile ==
    /\ pc = "analyze_file"
    /\ IsFile(als, 0)
    /\ ServicesIdle
    /\ result = Idle
    /\ unique_tags = {}
    /\ cmp_main = Idle /\ cmp_backups = Idle /\ comparison = Idle
    /\ project = Idle /\ results = Idle /\ sim = Idle

\* result = analyzer.analyze_file(als_path): the call returns the record, or
\* an exception leaves it; on success the tags are added to unique_tags
AnalyzeFile ==
    /\ pc = "analyze_file"
    /\ LET r == analyze_file(als) IN
        /\ result' = r.value
        /\ pc' = IF r.raised THEN "raised" ELSE "returned"
        /\ unique_tags' =
            IF r.raised \/ "error" \in DOMAIN r.value THEN unique_tags
            ELSE unique_tags \cup TagsOf(als)
    /\ UNCHANGED service_vars
    /\ UNCHANGED <<als, cmp_main, cmp_backups, comparison, project, results, sim>>

NextFile == AnalyzeFile

SpecFile == InitFile /\ [][NextFile]_vars

----------------------------------------------------------------------------
(* analyze_project.  project.files is the project folder as a listing returns  *)
(* it: each entry is a file, with the directory it lies in and its name; the   *)
(* path of a file is its place in the listing.  results.backup_files stands    *)
(* for self.backup_files too, and results.main_file for self.main_file (0 is   *)
(* None).                                                                      *)

\* most backup files in a project folder
MaxProjectBackups == 2

\* name of the project folder
FolderName == <<"Song">>

\* for backup_file in backup_dir.glob('*.als'), from entry k on
RECURSIVE GlobBackupDir(_, _)
GlobBackupDir(files, k) ==
    IF k > Len(files) THEN <<>>
    ELSE (IF files[k].dir = "Backup" THEN <<k>> ELSE <<>>) \o GlobBackupDir(files, k + 1)

\* 'backup' in als_file.name.lower() or '[' in als_file.name
LooksLikeBackup(name) == Contains(Lower(name), <<"backup">>) \/ Contains(name, <<"[">>)

\* a recursive search that appends what the Backup folder already gave
RECURSIVE RGlobBackupsAgain(_, _, _)
RGlobBackupsAgain(files, k, backups) ==
    IF k > Len(files) THEN backups
    ELSE RGlobBackupsAgain(files, k + 1,
            IF LooksLikeBackup(files[k].name) THEN Append(backups, k) ELSE backups)

\* for als_file in project_dir.rglob('*.als'), from entry k on
RECURSIVE RGlobBackups(_, _, _)
RGlobBackups(files, k, backups) ==
    IF k > Len(files) THEN backups
    ELSE RGlobBackups(files, k + 1,
            IF LooksLikeBackup(files[k].name) /\ k \notin Range(backups)
            THEN Append(backups, k) ELSE backups)

\* list.insert of x into a list sorted by mtime, newest first, behind its equals
RECURSIVE InsertByMtime(_, _, _)
InsertByMtime(files, sorted, x) ==
    IF sorted = <<>> THEN <<x>>
    ELSE IF files[Head(sorted)].mtime >= files[x].mtime
         THEN <<Head(sorted)>> \o InsertByMtime(files, Tail(sorted), x)
         ELSE <<x>> \o sorted

\* sorted(backups, key=lambda p: p.stat().st_mtime, reverse=True), a stable sort
RECURSIVE SortedByMtime(_, _, _)
SortedByMtime(files, backups, acc) ==
    IF backups = <<>> THEN acc
    ELSE SortedByMtime(files, Tail(backups), InsertByMtime(files, acc, Head(backups)))

find_backup_files(files) ==
    SortedByMtime(files, RGlobBackups(files, 1, GlobBackupDir(files, 1)), <<>>)

\* the main file of a project folder: <folder>.als, else the first .als of the root
FindMain(files) ==
    LET roots == {k \in 1..Len(files) : files[k].dir = "root"}
        named == {k \in roots : files[k].name = FolderName \o <<".als">>}
    IN  IF named # {} THEN Least(named)
        ELSE IF roots # {} THEN Least(roots)
        ELSE 0

\* what the files of a project hold
ProjectContents ==
    {[kind |-> "not_gzip", doc |-> <<>>], [kind |-> "bad_xml", doc |-> <<>>],
     [kind |-> "xml", doc |-> Doc(<<"Ableton">>,
        <<Kind(<<"Audio", "Track">>, NoneStr, NoneStr)>>, <<0, 1>>)],
     [kind |-> "xml", doc |-> Doc(<<"Ableton">>,
        <<Kind(<<"Tempo">>, NoneStr, NoneStr), Kind(<<"Manual">>, Str(<<"120">>), NoneStr)>>,
        <<0, 1, 2>>)]}

ProjectFile(path, dir, name, mtime, c) ==
    [path |-> path, dir |-> dir, name |-> name, size |-> 1, mtime |-> mtime,
     kind |-> c.kind, doc |-> c.doc]

\* the files a root can hold: none, Song.als, or a file named like a backup
RootFiles ==
    {<<>>}
    \cup {<<ProjectFile(1, "root", name, 3, c)>> :
            name \in {<<"Song", ".als">>, <<"Song", " ", "[", "old", "]", ".als">>},
            c \in ProjectContents}

\* the listings of n files of the Backup folder, as entries first.. of the project
BackupFiles(first, n) ==
    {[i \in 1..n |-> ProjectFile(first + i - 1, "Backup",
                        <<"Song", " ", "[">> \o [j \in 1..i |-> "x"] \o <<"]", ".als">>,
                        ms[i], cs[i])] :
        ms \in [1..n -> {1, 2}], cs \in [1..n -> ProjectContents]}

NoResults ==
    [main_file |-> 0, backup_files |-> <<>>, main_analysis |-> EmptyDict,
     backup_analyses |-> <<>>, comparison |-> EmptyDict]

Init ==
    /\ pc = "find_main"
    /\ \E root \in RootFiles : \E n \in 0..MaxProjectBackups :
        \E bs \in BackupFiles(Len(root) + 1, n) :
            project = [files |-> root \o bs]
    /\ results = NoResults
    /\ unique_tags = {}
    /\ ServicesIdle
    /\ als = Idle /\ result = Idle
    /\ cmp_main = Idle /\ cmp_backups = Idle /\ comparison = Idle /\ sim = Idle

\* the lines of analyze_project up to the results dict
ChooseMain ==
    /\ pc = "find_main"
    /\ results' = [results EXCEPT !.main_file = FindMain(project.files)]
    /\ pc' = "analyze_main"
    /\ UNCHANGED service_vars
    /\ UNCHANGED <<als, result, cmp_main, cmp_backups, comparison, project,
                   unique_tags, sim>>

\* the tags analyze_file adds to unique_tags when it returns r for file f
TagsAfter(tags, f, r) ==
    IF r.raised \/ "error" \in DOMAIN r.value THEN tags ELSE tags \cup TagsOf(f)

\* if self.main_file and self.main_file.exists(): analyze it; then find the
\* backup files
AnalyzeMain ==
    /\ pc = "analyze_main"
    /\ IF results.main_file # 0
       THEN LET f == project.files[results.main_file]
                r == analyze_file(f)
            IN  IF r.raised
                THEN /\ pc' = "raised"
                     /\ UNCHANGED <<results, unique_tags>>
                ELSE /\ pc' = "analyze_backups"
                     /\ results' = [results EXCEPT
                            !.main_analysis = r.value,
                            !.backup_files = find_backup_files(project.files)]
                     /\ unique_tags' = TagsAfter(unique_tags, f, r)
       ELSE /\ pc' = "analyze_backups"
            /\ results' = [results EXCEPT
                    !.backup_files = find_backup_files(project.files)]
            /\ UNCHANGED unique_tags
    /\ UNCHANGED service_vars
    /\ UNCHANGED <<als, result, cmp_main, cmp_backups, comparison, project, sim>>

\* a loop that gives up at the first record carrying an error
MoreBackupsUntilError(rs) ==
    /\ Len(rs.backup_analyses) < Len(rs.backup_files)
    /\ \A i \in 1..Len(rs.backup_analyses) : "error" \notin DOMAIN rs.backup_analyses[i]

\* for backup in self.backup_files: there is a next backup
MoreBackups(rs) == Len(rs.backup_analyses) < Len(rs.backup_files)

\* one turn of: for backup in self.backup_files
AnalyzeBackup ==
    /\ pc = "analyze_backups"
    /\ MoreBackups(results)
    /\ LET f == project.files[results.backup_files[Len(results.backup_analyses) + 1]]
           r == analyze_file(f)
       IN  IF r.raised
           THEN /\ pc' = "raised"
                /\ UNCHANGED <<results, unique_tags>>
           ELSE /\ pc' = "analyze_backups"
                /\ results' = [results EXCEPT !.backup_analyses = Append(@, r.value)]
                /\ unique_tags' = TagsAfter(unique_tags, f, r)
    /\ UNCHANGED service_vars
    /\ UNCHANGED <<als, result, cmp_main, cmp_backups, comparison, project, sim>>

\* after the loop: compare main and backups when there are both, and return
CompareProject ==
    /\ pc = "analyze_backups"
    /\ ~MoreBackups(results)
    /\ results' = [results EXCEPT !.comparison =
            IF results.main_analysis # EmptyDict /\ results.backup_analyses # <<>>
            THEN compare_files(results.main_analysis, results.backup_analyses)
            ELSE EmptyDict]
    /\ pc' = "done"
    /\ UNCHANGED service_vars
    /\ UNCHANGED <<als, result, cmp_main, cmp_backups, comparison, project,
                   unique_tags, sim>>

Next == ChooseMain \/ AnalyzeMain \/ AnalyzeBackup \/ CompareProject

Spec == Init /\ [][Next]_vars

----------------------------------------------------------------------------
(* The similarity analyzer (services/similarity_analyzer.py), which            *)
(* ui/widgets/recommendations_panel.py calls with the dicts _project_to_dict   *)
(* makes.  Its operators follow section 4.4 of the specification.  Scores are  *)
(* exact fractions [n, d] in lowest terms.                                     *)

RECURSIVE GCD(_, _)
GCD(a, b) == IF b = 0 THEN a ELSE GCD(b, a % b)

\* the fraction n/d (n >= 0, d > 0) in lowest terms
Rat(n, d) == LET g == GCD(n, d) IN [n |-> n \div g, d |-> d \div g]

Zero == Rat(0, 1)
One == Rat(1, 1)
RAdd(x, y) == Rat(x.n * y.d + y.n * x.d, x.d * y.d)
RMul(x, y) == Rat(x.n * y.n, x.d * y.d)
\* |x - y|
RDist(x, y) == Rat(Abs(x.n * y.d - y.n * x.d), x.d * y.d)
RLeq(x, y) == x.n * y.d <= y.n * x.d

\* an absent set, and a set that is there
NoneSet == [has |-> FALSE, v |-> {}]
SetOf(S) == [has |-> TRUE, v |-> S]

\* the dimensions of the score
Dims == <<"plugins", "devices", "tempo", "structure", "length">>

\* a dimension that was computed with value x, and one that was not
Computed(x) == [computed |-> TRUE, value |-> x]
NotComputed == [computed |-> FALSE, value |-> Zero]

\* BPM difference from which tempo proximity is 0
TempoThreshold == 20

\* difference of arrangement length from which length proximity is 0
LengthThreshold == 64

\* the shared elements over the size of the smaller set
overlap_of_smaller(A, B) ==
    IF A \cup B = {} THEN NotComputed
    ELSE IF A = {} \/ B = {} THEN Computed(Zero)
    ELSE Computed(Rat(Cardinality(A \cap B),
                      IF Cardinality(A) < Cardinality(B) THEN Cardinality(A)
                      ELSE Cardinality(B)))

\* |A n B| / |A u B|; two empty sets have no overlap to speak of
jaccard(A, B) ==
    IF A \cup B = {} THEN NotComputed
    ELSE Computed(Rat(Cardinality(A \cap B), Cardinality(A \cup B)))

\* overlap of two optional sets, an absent set being an empty one
overlap_similarity(x, y) == jaccard(x.v, y.v)

\* a closeness that scores 0 for a candidate without the number
decay_by_reference(x, y, threshold) ==
    IF ~x.has THEN NotComputed
    ELSE IF ~y.has THEN Computed(Zero)
    ELSE IF Abs(x.v - y.v) >= threshold THEN Computed(Zero)
    ELSE Computed(Rat(threshold - Abs(x.v - y.v), threshold))

\* closeness of two optional numbers: 1 at equality, falling to 0 at threshold
decay(x, y, threshold) ==
    IF ~x.has \/ ~y.has THEN NotComputed
    ELSE IF Abs(x.v - y.v) >= threshold THEN Computed(Zero)
    ELSE Computed(Rat(threshold - Abs(x.v - y.v), threshold))

tempo_similarity(a, b) == decay(a.tempo, b.tempo, TempoThreshold)

length_similarity(a, b) ==
    decay(a.arrangement_length, b.arrangement_length, LengthThreshold)

\* the share of the tracks of r that are of one type
Ratio(r, type) == IF r.track_count = 0 THEN Zero ELSE Rat(r[type], r.track_count)

\* closeness of two track counts: the smaller over the larger
CountProximity(m, n) ==
    IF m = 0 /\ n = 0 THEN One
    ELSE Rat(IF m < n THEN m ELSE n, IF m < n THEN n ELSE m)

\* 1 + |x - y|, the sign of the distance slipped
RatioProximitySignSlip(x, y) == RAdd(One, RDist(x, y))

\* 1 - |x - y| for shares x and y
RatioProximity(x, y) == RDist(One, RDist(x, y))

\* track count and track type mix, each part weighing the same
structural_similarity(a, b) ==
    Computed(RMul(Rat(1, 3),
        RAdd(CountProximity(a.track_count, b.track_count),
        RAdd(RatioProximity(Ratio(a, "audio_tracks"), Ratio(b, "audio_tracks")),
             RatioProximity(Ratio(a, "midi_tracks"), Ratio(b, "midi_tracks"))))))

\* every dimension of the pair
Dimensions(a, b) ==
    [plugins |-> overlap_similarity(a.plugins, b.plugins),
     devices |-> overlap_similarity(a.devices, b.devices),
     tempo |-> tempo_similarity(a, b),
     structure |-> structural_similarity(a, b),
     length |-> length_similarity(a, b)]

\* the dimensions that count: all of them when a dimension that could not be
\* computed scores 0, only the computed ones when it is left out
Counted(dims, config) ==
    {d \in Range(Dims) : config.missing = "zero" \/ dims[d].computed}

\* sum over Dims[k..] of weight * value, and of weight, for the counted ones
RECURSIVE WeightedSum(_, _, _, _)
WeightedSum(dims, config, counted, k) ==
    IF k > Len(Dims) THEN Zero
    ELSE RAdd(IF Dims[k] \in counted
              THEN RMul(Rat(config.weights[Dims[k]], 1), dims[Dims[k]].value)
              ELSE Zero,
              WeightedSum(dims, config, counted, k + 1))

RECURSIVE TotalWeight(_, _, _)
TotalWeight(config, counted, k) ==
    IF k > Len(Dims) THEN 0
    ELSE (IF Dims[k] \in counted THEN config.weights[Dims[k]] ELSE 0)
         + TotalWeight(config, counted, k + 1)

\* a record read with the fields it carries, whatever else it says
FeaturesAsCarried(r) == r

\* the features of a record: those of a record with an error field are empty
Features(r) ==
    IF "error" \in DOMAIN r
    THEN [id |-> r.id, name |-> r.name, plugins |-> SetOf({}), devices |-> SetOf({}),
          tempo |-> NoneNum, track_count |-> 0, audio_tracks |-> 0, midi_tracks |-> 0,
          arrangement_length |-> NoneNum]
    ELSE r

\* similarity(reference, candidate, weights): the score and its breakdown
similarity(a, b, config) ==
    LET dims == Dimensions(Features(a), Features(b))
        counted == Counted(dims, config)
        total == TotalWeight(config, counted, 1)
    IN  [score |-> IF total = 0 THEN Zero
                   ELSE RMul(WeightedSum(dims, config, counted, 1), Rat(1, total)),
         dimensions |-> dims]

\* most tracks of a project
MaxTracks == 1

\* the dict _project_to_dict makes of a project row
project_to_dict(id, name, plugins, devices, tempo, tracks, length) ==
    [id |-> id, name |-> name,
     plugins |-> IF plugins.has THEN plugins ELSE SetOf({}),
     devices |-> IF devices.has THEN devices ELSE SetOf({}),
     tempo |-> tempo, track_count |-> tracks[1], audio_tracks |-> tracks[2],
     midi_tracks |-> tracks[3], arrangement_length |-> length]

\* track count, audio tracks, midi tracks of a project of at most n tracks
TrackProfiles(n) == UNION {{<<t, a, t - a>> : a \in 0..t} : t \in 0..n}

\* the project rows of the library
Projects(id, name) ==
    {project_to_dict(id, name, plugins, devices, tempo, tracks, length) :
        plugins \in {NoneSet, SetOf({"X.vst", "Y.vst"}), SetOf({"Y.vst", "Z.vst"})},
        devices \in {SetOf({}), SetOf({"Reverb"})},
        tempo \in {NoneNum, Num(120), Num(130)},
        tracks \in TrackProfiles(MaxTracks),
        length \in {NoneNum, Num(64)}}

\* weights and the convention for a dimension that could not be computed
Configs ==
    {[weights |-> w, missing |-> m] :
        w \in {[plugins |-> 1, devices |-> 1, tempo |-> 1, structure |-> 1, length |-> 1],
               [plugins |-> 1, devices |-> 0, tempo |-> 0, structure |-> 0, length |-> 0],
               [plugins |-> 3, devices |-> 2, tempo |-> 2, structure |-> 2, length |-> 1]},
        m \in {"zero", "skip"}}

InitSim ==
    /\ pc = "start"
    /\ \E a \in Projects(1, <<"A">>) : \E b \in Projects(2, <<"B">>) \cup {a} :
        \E config \in Configs :
            sim = [reference |-> a, candidate |-> b, config |-> config,
                   result |-> Idle, swapped |-> Idle]
    /\ ServicesIdle
    /\ als = Idle /\ result = Idle
    /\ cmp_main = Idle /\ cmp_backups = Idle /\ comparison = Idle
    /\ project = Idle /\ results = Idle /\ unique_tags = {}

\* similarity(reference, candidate)
Similarity ==
    /\ pc = "start"
    /\ sim' = [sim EXCEPT !.result = similarity(sim.reference, sim.candidate, sim.config)]
    /\ pc' = "scored"
    /\ UNCHANGED service_vars
    /\ UNCHANGED <<als, result, cmp_main, cmp_backups, comparison, project, results,
                   unique_tags>>

\* similarity(candidate, reference)
SimilaritySwapped ==
    /\ pc = "scored"
    /\ sim' = [sim EXCEPT !.swapped = similarity(sim.candidate, sim.reference, sim.config)]
    /\ pc' = "both"
    /\ UNCHANGED service_vars
    /\ UNCHANGED <<als, result, cmp_main, cmp_backups, comparison, project, results,
                   unique_tags>>

NextSim == Similarity \/ SimilaritySwapped

SpecSim == InitSim /\ [][NextSim]_vars

----------------------------------------------------------------------------
(* find_similar_projects of the similarity analyzer, as section 4.4 of the     *)
(* specification has it: score every candidate, keep those at or above the     *)
(* minimum, sort by score descending and name ascending, cut to top_n.         *)
(* Names are sequences of letters.                                             *)

\* place of a letter in the alphabet
Ord(c) == CASE c = "A" -> 1 [] c = "B" -> 2 [] c = "C" -> 3 [] OTHER -> 4

\* s < t for names, as Python compares strings
RECURSIVE StrLess(_, _)
StrLess(s, t) ==
    IF t = <<>> THEN FALSE
    ELSE IF s = <<>> THEN TRUE
    ELSE IF Ord(Head(s)) # Ord(Head(t)) THEN Ord(Head(s)) < Ord(Head(t))
    ELSE StrLess(Tail(s), Tail(t))

\* the entry of the result list for one candidate
SimilarProject(reference, candidate, config) ==
    LET r == similarity(reference, candidate, config)
    IN  [project_id |-> candidate.id, project_name |-> candidate.name,
         similarity_score |-> r.score, similarity_result |-> r]

\* every candidate scored, in the order supplied
RECURSIVE ScoreAll(_, _, _)
ScoreAll(reference, candidates, config) ==
    IF candidates = <<>> THEN <<>>
    ELSE <<SimilarProject(reference, Head(candidates), config)>>
         \o ScoreAll(reference, Tail(candidates), config)

\* the entries at or above the minimum
Passing(scored, min_similarity) ==
    SelectSeq(scored, LAMBDA e : RLeq(min_similarity, e.similarity_score))

\* an order that looks at the score only
RanksBeforeByScore(x, y) ==
    x.similarity_score # y.similarity_score /\ RLeq(y.similarity_score, x.similarity_score)

\* x ranks before y: higher score, or the same score and the lesser name
RanksBefore(x, y) ==
    IF x.similarity_score # y.similarity_score
    THEN RLeq(y.similarity_score, x.similarity_score)
    ELSE StrLess(x.project_name, y.project_name)

\* x put into a ranked list behind everything it does not rank before
RECURSIVE InsertRanked(_, _)
InsertRanked(ranked, x) ==
    IF ranked = <<>> THEN <<x>>
    ELSE IF RanksBefore(x, Head(ranked)) THEN <<x>> \o ranked
    ELSE <<Head(ranked)>> \o InsertRanked(Tail(ranked), x)

\* a stable sort by rank
RECURSIVE Ranked(_, _)
Ranked(entries, acc) ==
    IF entries = <<>> THEN acc
    ELSE Ranked(Tail(entries), InsertRanked(acc, Head(entries)))

\* a cut that keeps one entry too many
TruncateOneMore(entries, top_n) ==
    SubSeq(entries, 1, IF top_n + 1 < Len(entries) THEN top_n + 1 ELSE Len(entries))

\* the first top_n entries
Truncate(entries, top_n) ==
    SubSeq(entries, 1, IF top_n < Len(entries) THEN top_n ELSE Len(entries))

\* filter, sort, cut
RankAndCut(scored, top_n, min_similarity) ==
    Truncate(Ranked(Passing(scored, min_similarity), <<>>), top_n)

find_similar_projects(reference, candidates, top_n, min_similarity, config) ==
    RankAndCut(ScoreAll(reference, candidates, config), top_n, min_similarity)

\* most candidates in a pool
MaxPool == 3

\* the reference project of the panel
ReferenceProject ==
    project_to_dict(0, <<"R">>, SetOf({"X.vst", "Y.vst"}), SetOf({"Reverb"}),
                    Num(120), <<1, 1, 0>>, Num(64))

\* the other projects of the library: like the reference, half like it, bare
Candidates(id) ==
    {project_to_dict(id, name, f[1], f[2], f[3], f[4], f[5]) :
        name \in {<<"A">>, <<"B">>},
        f \in {<<SetOf({"X.vst", "Y.vst"}), SetOf({"Reverb"}), Num(120), <<1, 1, 0>>, Num(64)>>,
               <<SetOf({"Y.vst", "Z.vst"}), SetOf({"Reverb"}), Num(130), <<1, 1, 0>>, NoneNum>>,
               <<NoneSet, NoneSet, NoneNum, <<0, 0, 0>>, NoneNum>>}}

\* pools of n candidates with the ids 1..n
Pools(n) == {pool \in [1..n -> UNION {Candidates(id) : id \in 1..n}] :
                \A k \in 1..n : pool[k].id = k}

\* the weights the panel leaves to the analyzer
DefaultConfig ==
    [weights |-> [plugins |-> 3, devices |-> 2, tempo |-> 2, structure |-> 2, length |-> 1],
     missing |-> "zero"]

\* minimum similarities: none, the panel's 0.3, a full match
MinSimilarities == {Zero, Rat(3, 10), One}

InitFind ==
    /\ pc = "start"
    /\ \E n \in 0..MaxPool : \E pool \in Pools(n) : \E top_n \in 0..MaxPool :
        \E min_similarity \in MinSimilarities :
            similar = [reference |-> ReferenceProject, candidates |-> pool,
                       top_n |-> top_n, min_similarity |-> min_similarity,
                       config |-> DefaultConfig, scored |-> Idle, returned |-> Idle]
    /\ recs = Idle /\ names = Idle /\ checker = Idle /\ scan = Idle /\ live = Idle
    /\ als = Idle /\ result = Idle
    /\ cmp_main = Idle /\ cmp_backups = Idle /\ comparison = Idle
    /\ project = Idle /\ results = Idle /\ unique_tags = {} /\ sim = Idle

\* similar = self._analyzer.find_similar_projects(...); scored is the list of
\* scored candidates it ranks
FindSimilar ==
    /\ pc = "start"
    /\ similar' = [similar EXCEPT
            !.scored = ScoreAll(similar.reference, similar.candidates, similar.config),
            !.returned =
                find_similar_projects(similar.reference, similar.candidates, similar.top_n,
                                      similar.min_similarity, similar.config)]
    /\ pc' = "returned"
    /\ UNCHANGED <<als, result, cmp_main, cmp_backups, comparison, project, results,
                   unique_tags, sim, recs, names, checker, scan, live>>

NextFind == FindSimilar

SpecFind == InitFind /\ [][NextFind]_vars

----------------------------------------------------------------------------
(* The recommendation engine (services/recommendation_engine.py), as section   *)
(* 4.5 of the specification has it: drop the excluded ids and the repeated     *)
(* ones, score every candidate by shared-plugin affinity first and similarity  *)
(* second, rank by score with ties by id, cut to n_recommendations.            *)

\* the share of the project's plugins that the candidate has too
affinity(project_dict, candidate) ==
    LET mine == Features(project_dict).plugins.v
        theirs == Features(candidate).plugins.v
    IN  IF mine = {} THEN Zero
        ELSE Rat(Cardinality(mine \cap theirs), Cardinality(mine))

\* affinity leading, similarity supporting
blend(aff, score) == RMul(Rat(1, 3), RAdd(RMul(Rat(2, 1), aff), score))

\* the entry of the recommendation set for one candidate
Recommendation(project_dict, candidate, config) ==
    LET aff == affinity(project_dict, candidate)
        r == similarity(project_dict, candidate, config)
    IN  [item_id |-> candidate.id, item_name |-> candidate.name,
         score |-> blend(aff, r.score),
         reason |-> IF aff # Zero THEN "shared plugins" ELSE "similar project",
         similarity |-> r.score]

\* a pool taken as it comes, repeats and all
WithRepeats(pool, seen) == pool

\* the pool without the candidates whose id came before
RECURSIVE Deduplicated(_, _)
Deduplicated(pool, seen) ==
    IF pool = <<>> THEN <<>>
    ELSE IF Head(pool).id \in seen THEN Deduplicated(Tail(pool), seen)
    ELSE <<Head(pool)>> \o Deduplicated(Tail(pool), seen \cup {Head(pool).id})

\* the pool without the excluded ids
Eligible(pool, exclude_ids) == SelectSeq(pool, LAMBDA c : c.id \notin exclude_ids)

RECURSIVE RecommendAll(_, _, _)
RecommendAll(project_dict, pool, config) ==
    IF pool = <<>> THEN <<>>
    ELSE <<Recommendation(project_dict, Head(pool), config)>>
         \o RecommendAll(project_dict, Tail(pool), config)

\* x ranks before y: higher score, or the same score and the lesser id
RecommendedBefore(x, y) ==
    IF x.score # y.score THEN RLeq(y.score, x.score) ELSE x.item_id < y.item_id

RECURSIVE InsertRecommendation(_, _)
InsertRecommendation(ranked, x) ==
    IF ranked = <<>> THEN <<x>>
    ELSE IF RecommendedBefore(x, Head(ranked)) THEN <<x>> \o ranked
    ELSE <<Head(ranked)>> \o InsertRecommendation(Tail(ranked), x)

RECURSIVE RankedRecommendations(_, _)
RankedRecommendations(entries, acc) ==
    IF entries = <<>> THEN acc
    ELSE RankedRecommendations(Tail(entries), InsertRecommendation(acc, Head(entries)))

recommend(project_dict, candidate_pool, n_recommendations, exclude_ids, config) ==
    [recommendations |->
        Truncate(RankedRecommendations(
                    RecommendAll(project_dict,
                                 Deduplicated(Eligible(candidate_pool, exclude_ids), {}),
                                 config),
                    <<>>),
                 n_recommendations)]

\* most entries in the pool handed to the engine
MaxCandidates == 3

\* the library the pool is drawn from: a project like the reference, one half
\* like it, one whose analysis failed and that still carries features, and
\* one with no plugins, devices, tempo or length
LibraryProject(id) ==
    CASE id = 1 -> project_to_dict(1, <<"A">>, SetOf({"X.vst", "Y.vst"}), SetOf({"Reverb"}),
                                   Num(120), <<1, 1, 0>>, Num(64))
      [] id = 2 -> project_to_dict(2, <<"B">>, SetOf({"Y.vst", "Z.vst"}), SetOf({"Reverb"}),
                                   Num(130), <<1, 1, 0>>, NoneNum)
      [] id = 3 -> project_to_dict(3, <<"C">>, SetOf({"X.vst", "Y.vst"}), SetOf({"Reverb"}),
                                   Num(120), <<1, 1, 0>>, Num(64))
                   @@ [error |-> <<"Not a gzipped file">>]
      [] OTHER  -> project_to_dict(4, <<"A">>, NoneSet, NoneSet, NoneNum, <<1, 0, 1>>, NoneNum)

LibraryIds == 1..4

InitRecommend ==
    /\ pc = "start"
    /\ \E n \in 0..MaxCandidates : \E ids \in [1..n -> LibraryIds] :
        \E n_recommendations \in 0..MaxCandidates :
        \E exclude_ids \in {{}} \cup {{id} : id \in LibraryIds} :
            recs = [project |-> ReferenceProject,
                    candidate_pool |-> [k \in 1..n |-> LibraryProject(ids[k])],
                    n_recommendations |-> n_recommendations,
                    exclude_ids |-> exclude_ids,
                    config |-> DefaultConfig, returned |-> Idle]
    /\ similar = Idle /\ names = Idle /\ checker = Idle /\ scan = Idle /\ live = Idle
    /\ als = Idle /\ result = Idle
    /\ cmp_main = Idle /\ cmp_backups = Idle /\ comparison = Idle
    /\ project = Idle /\ results = Idle /\ unique_tags = {} /\ sim = Idle

\* recommendations = self._recommendation_engine.recommend_similar_projects(...)
Recommend ==
    /\ pc = "start"
    /\ recs' = [recs EXCEPT !.returned =
            recommend(recs.project, recs.candidate_pool, recs.n_recommendations,
                      recs.exclude_ids, recs.config)]
    /\ pc' = "returned"
    /\ UNCHANGED <<als, result, cmp_main, cmp_backups, comparison, project, results,
                   unique_tags, sim, similar, names, checker, scan, live>>

NextRecommend == Recommend

SpecRecommend == InitRecommend /\ [][NextRecommend]_vars

----------------------------------------------------------------------------
(* services/song_name_generator.py.  A name is the sequence of its words;      *)
(* the word lists are a few words of the lists of the source, among them the   *)
(* words the source has in two lists and the words its phrases share with      *)
(* the lists.  random.choice and random.random are choices among all outcomes. *)

_ONE_SYL == <<"light", "void", "ember">>
_TWO_SYL == <<"synthetic", "ember">>
_THREE_SYL == <<"synthetic">>
_PHRASES == <<<<"again">>, <<"first", "light">>, <<"in", "the", "void">>>>

\* len(w)
WordLen(w) ==
    CASE w = "synthetic" -> 9
      [] w \in {"light", "ember", "again", "first"} -> 5
      [] w = "void" -> 4
      [] w = "the" -> 3
      [] OTHER -> 2

\* _count_syllables: the groups of vowels of a word
_count_syllables(w) ==
    CASE w = "synthetic" -> 3
      [] w \in {"ember", "again"} -> 2
      [] OTHER -> 1

\* str.capitalize and str.title of a word
Capitalize(w) ==
    CASE w = "light" -> "Light" [] w = "void" -> "Void" [] w = "ember" -> "Ember"
      [] w = "synthetic" -> "Synthetic" [] w = "again" -> "Again"
      [] w = "first" -> "First" [] w = "in" -> "In" [] w = "the" -> "The"
      [] OTHER -> w

\* the first n elements of a list: list[:n]
Take(list, n) == SubSeq(list, 1, IF n < Len(list) THEN n ELSE Len(list))

\* _words_in_name
_words_in_name(name) == Range(Lower(name))

\* _has_repeated_words
_has_repeated_words(name) == Len(Lower(name)) # Cardinality(Range(Lower(name)))

RECURSIVE SumSyllables(_)
SumSyllables(words) ==
    IF words = <<>> THEN 0 ELSE _count_syllables(Head(words)) + SumSyllables(Tail(words))

\* _total_syllables
_total_syllables(name) == SumSyllables(Lower(name))

\* [w for w in list if w not in excluded]
Without(list, excluded) == SelectSeq(list, LAMBDA w : w \notin excluded)

\* the words chosen for the places i.. of a name of word_count words, or
\* NoneStr where no word is left for a place
RECURSIVE ChooseWords(_, _, _, _, _)
ChooseWords(word_count, i, words, one_pool, two_pool) ==
    IF i = word_count THEN {Str(words)}
    ELSE LET pool == IF i % 2 = 0 THEN one_pool ELSE two_pool
             available == Range(pool) \ Range(words)
         IN  IF available = {} THEN {NoneStr}
             ELSE UNION {ChooseWords(word_count, i + 1, Append(words, w), one_pool, two_pool) :
                            w \in available}

\* the words after a phrase was drawn for them
WithPhrase(words, phrase_words, excluded) ==
    IF Len(phrase_words) <= Len(words)
       /\ ~\E k \in 1..Len(phrase_words) : phrase_words[k] \in excluded \cup Range(words)
    THEN SubSeq(words, 1, Len(words) - Len(phrase_words)) \o phrase_words
    ELSE words

\* the end of generate_song_name: the name, or None for a repeated word or
\* more than 5 syllables
Finish(words) ==
    LET name == [k \in 1..Len(words) |-> Capitalize(words[k])]
    IN  IF _has_repeated_words(name) THEN NoneStr
        ELSE IF _total_syllables(name) > 5 THEN NoneStr
        ELSE Str(name)

\* everything generate_song_name(excluded_words) can return
generate_song_name(excluded) ==
    LET one == Without(_ONE_SYL, excluded)
        two == Without(_TWO_SYL, excluded)
        three == Without(_THREE_SYL, excluded)
        single == one \o SelectSeq(two, LAMBDA w : WordLen(w) <= 7)
        one_pool == one \o Take(two, 20)
        two_pool == two \o Take(three, 12)
    IN  (IF single = <<>> THEN {NoneStr}
         ELSE {Str(<<Capitalize(w)>>) : w \in Range(single)})
        \cup
        (IF one_pool = <<>> \/ two_pool = <<>> THEN {NoneStr}
         ELSE UNION {
            UNION {IF chosen = NoneStr THEN {NoneStr}
                   ELSE {Finish(chosen.v)}
                        \cup (IF word_count >= 3
                              THEN {Finish(WithPhrase(chosen.v, _PHRASES[k], excluded)) :
                                        k \in 1..Len(_PHRASES)}
                              ELSE {}) :
                   chosen \in ChooseWords(word_count, 0, <<>>, one_pool, two_pool)} :
            word_count \in 2..5})

\* most names asked for
MaxCount == 2

\* max_attempts = count * 80
AttemptsPerName == 80

\* used_words after a name was taken, had the update been left out
UsedWordsKept(used_words, words) == used_words

\* used_words.update(words)
UsedWordsUpdate(used_words, words) == used_words \cup words

InitNames ==
    /\ pc = "generating"
    /\ \E count \in 0..MaxCount :
        names = [count |-> count, attempts |-> 0, max_attempts |-> count * AttemptsPerName,
                 seen_names |-> {}, used_words |-> {}, result |-> <<>>]
    /\ similar = Idle /\ recs = Idle /\ checker = Idle /\ scan = Idle /\ live = Idle
    /\ als = Idle /\ result = Idle
    /\ cmp_main = Idle /\ cmp_backups = Idle /\ comparison = Idle
    /\ project = Idle /\ results = Idle /\ unique_tags = {} /\ sim = Idle

\* one turn of the while loop of generate_song_names
Attempt ==
    /\ pc = "generating"
    /\ Len(names.result) < names.count /\ names.attempts < names.max_attempts
    /\ \E name \in generate_song_name(names.used_words) :
        IF ~name.has \/ name.v \in names.seen_names
        THEN names' = [names EXCEPT !.attempts = @ + 1]
        ELSE IF _words_in_name(name.v) \cap names.used_words # {}
        THEN names' = [names EXCEPT !.attempts = @ + 1]
        ELSE names' = [names EXCEPT
                !.attempts = @ + 1,
                !.seen_names = @ \cup {name.v},
                !.used_words = UsedWordsUpdate(@, _words_in_name(name.v)),
                !.result = Append(@, name.v)]
    /\ UNCHANGED pc
    /\ UNCHANGED <<als, result, cmp_main, cmp_backups, comparison, project, results,
                   unique_tags, sim, similar, recs, checker, scan, live>>

\* the loop is over: return result
ReturnNames ==
    /\ pc = "generating"
    /\ ~(Len(names.result) < names.count /\ names.attempts < names.max_attempts)
    /\ pc' = "returned"
    /\ UNCHANGED <<als, result, cmp_main, cmp_backups, comparison, project, results,
                   unique_tags, sim, similar, recs, names, checker, scan, live>>

NextNames == Attempt \/ ReturnNames

SpecNames == InitNames /\ [][NextNames]_vars

----------------------------------------------------------------------------
(* services/update_checker.py.  Version strings are sequences of characters;   *)
(* a JSON value is a record with its type t and its value v; a dict is a       *)
(* function from its keys.                                                     *)

\* c.isdigit(): the ten digits, and characters such as a superscript two that
\* int() does not read
IsDigit(c) == c \in {"0", "1", "2", "3", "4", "5", "6", "7", "8", "9", "sup2"}

DigitValue(c) ==
    CASE c = "0" -> 0 [] c = "1" -> 1 [] c = "2" -> 2 [] c = "3" -> 3 [] c = "4" -> 4
      [] c = "5" -> 5 [] c = "6" -> 6 [] c = "7" -> 7 [] c = "8" -> 8 [] OTHER -> 9

\* int(s) of a string of digits
RECURSIVE IntOf(_)
IntOf(s) ==
    IF s = <<>> THEN 0 ELSE 10 * IntOf(SubSeq(s, 1, Len(s) - 1)) + DigitValue(s[Len(s)])

\* s.lstrip(c)
RECURSIVE LStripChar(_, _)
LStripChar(s, c) == IF s # <<>> /\ Head(s) = c THEN LStripChar(Tail(s), c) ELSE s

\* place of the first sep in s, 0 when it has none
FirstOf(s, sep) ==
    IF \E i \in 1..Len(s) : s[i] = sep
    THEN Least({i \in 1..Len(s) : s[i] = sep})
    ELSE 0

\* s.split(sep)
RECURSIVE Split(_, _)
Split(s, sep) ==
    IF FirstOf(s, sep) = 0 THEN <<s>>
    ELSE <<SubSeq(s, 1, FirstOf(s, sep) - 1)>> \o Split(SubSeq(s, FirstOf(s, sep) + 1, Len(s)), sep)

\* one part of a version: its digits and dashes, the number before the first
\* dash, 0 when there is none or when int() raises ValueError on it
VersionPart(x) ==
    LET num_str == SelectSeq(x, LAMBDA c : IsDigit(c) \/ c = "-")
        first == Split(num_str, "-")[1]
    IN  IF num_str = <<>> THEN 0
        ELSE IF first = <<>> \/ \E i \in 1..Len(first) : first[i] = "sup2" THEN 0
        ELSE IntOf(first)

\* _parse_version of update_checker.py
parse_version_tuple(s) ==
    LET parts == Split(LStripChar(Strip(s), "v"), ".")
    IN  [k \in 1..Len(parts) |-> VersionPart(parts[k])]

\* a > b for tuples of numbers
RECURSIVE TupleGreater(_, _)
TupleGreater(a, b) ==
    IF a = <<>> THEN FALSE
    ELSE IF b = <<>> THEN TRUE
    ELSE IF Head(a) # Head(b) THEN Head(a) > Head(b)
    ELSE TupleGreater(Tail(a), Tail(b))

_is_newer(latest, current) ==
    TupleGreater(parse_version_tuple(latest), parse_version_tuple(current))

\* a dict with no keys
NoFields == [k \in {} |-> 0]

JNull == [t |-> "null", s |-> <<>>, n |-> 0, items |-> <<>>, fields |-> NoFields]
JStr(x) == [t |-> "str", s |-> x, n |-> 0, items |-> <<>>, fields |-> NoFields]
JNum(n) == [t |-> "num", s |-> <<>>, n |-> n, items |-> <<>>, fields |-> NoFields]
JList(items) == [t |-> "list", s |-> <<>>, n |-> 0, items |-> items, fields |-> NoFields]
JObj(fields) == [t |-> "obj", s |-> <<>>, n |-> 0, items |-> <<>>, fields |-> fields]

\* d.get(key, default) of a dict
DictGet(d, key, default) == IF key \in DOMAIN d.fields THEN d.fields[key] ELSE default

\* bool(x) of a JSON value
Truthy(x) ==
    CASE x.t = "null" -> FALSE
      [] x.t = "str" -> x.s # <<>>
      [] x.t = "num" -> x.n # 0
      [] x.t = "list" -> x.items # <<>>
      [] OTHER -> DOMAIN x.fields # {}

\* what a call gives: a value, or an exception
Returns(x) == [raised |-> FALSE, value |-> x]
Raises(type) == [raised |-> TRUE, value |-> Exc(type, <<type>>)]

\* the asset loop of _get_platform_download_url from asset k on
RECURSIVE AssetLoop(_, _, _)
AssetLoop(assets, k, suffix) ==
    IF k > Len(assets) THEN Returns(JNull)
    ELSE IF assets[k].t # "obj" THEN Raises("AttributeError")
    ELSE LET name == DictGet(assets[k], "name", JStr(<<>>))
         IN  IF name.t # "str" THEN Raises("AttributeError")
             ELSE IF name.s # <<>> /\ LowerTok(name.s[Len(name.s)]) = suffix
             THEN Returns(DictGet(assets[k], "browser_download_url", JNull))
             ELSE AssetLoop(assets, k + 1, suffix)

_get_platform_download_url(release, platform) ==
    LET assets == DictGet(release, "assets", JList(<<>>))
    IN  IF platform \notin {"win32", "darwin"} THEN Returns(JNull)
        ELSE IF assets.t \in {"null", "num"} THEN Raises("TypeError")
        ELSE IF assets.t = "str"
        THEN (IF assets.s = <<>> THEN Returns(JNull) ELSE Raises("AttributeError"))
        ELSE IF assets.t = "obj"
        THEN (IF DOMAIN assets.fields = {} THEN Returns(JNull) ELSE Raises("AttributeError"))
        ELSE AssetLoop(assets.items, 1, IF platform = "win32" THEN ".msi" ELSE ".dmg")

ReleasesUrl == <<"https://github.com/EazyTom/ableton-hub/releases">>

Signal(name, args) == [signal |-> name, args |-> args]

\* the try block of _on_finished: the signals it emits, and the exception
\* that ends it, if one does
OnFinishedTry(reply, platform, current_version) ==
    IF reply.error
    THEN [emitted |-> <<Signal("check_failed",
                            <<IF reply.errorString # <<>> THEN reply.errorString
                              ELSE <<"Unknown network error">>>>)>>,
          raised |-> FALSE]
    ELSE IF reply.body.kind = "bad_utf8"
    THEN [emitted |-> <<>>, raised |-> TRUE, exc |-> Exc("UnicodeDecodeError", <<"utf-8">>)]
    ELSE IF reply.body.kind = "not_json"
    THEN [emitted |-> <<>>, raised |-> TRUE, exc |-> Exc("JSONDecodeError", <<"Expecting value">>)]
    ELSE
    LET release == reply.body.json
    IN  IF release.t # "obj"
        THEN [emitted |-> <<>>, raised |-> TRUE, exc |-> Exc("AttributeError", <<"get">>)]
        ELSE
        LET tag_name == DictGet(release, "tag_name", JStr(<<>>))
            release_url == DictGet(release, "html_url", JStr(ReleasesUrl))
        IN  IF tag_name.t # "str"
            THEN [emitted |-> <<>>, raised |-> TRUE, exc |-> Exc("AttributeError", <<"lstrip">>)]
            ELSE IF ~_is_newer(LStripChar(tag_name.s, "v"), current_version)
            THEN [emitted |-> <<Signal("no_update_available", <<>>)>>, raised |-> FALSE]
            ELSE
            LET found == _get_platform_download_url(release, platform)
                download_url == IF Truthy(found.value) THEN found.value ELSE release_url
            IN  IF found.raised
                THEN [emitted |-> <<>>, raised |-> TRUE, exc |-> found.value]
                ELSE IF release_url.t # "str" \/ download_url.t # "str"
                THEN [emitted |-> <<>>, raised |-> TRUE, exc |-> Exc("TypeError", <<"emit">>)]
                ELSE [emitted |-> <<Signal("update_available",
                                           <<LStripChar(tag_name.s, "v"), release_url.s,
                                             download_url.s>>)>>,
                      raised |-> FALSE]

\* handlers that catch ValueError and its subclasses only
CaughtIfValueError(exc) == exc.type \in {"JSONDecodeError", "UnicodeDecodeError"}

\* except json.JSONDecodeError / except Exception
Caught(exc) ==
    exc.type \in {"JSONDecodeError", "UnicodeDecodeError", "AttributeError", "TypeError"}

\* _on_finished: the signals emitted, and whether an exception left the slot
_on_finished(reply, platform, current_version) ==
    LET try == OnFinishedTry(reply, platform, current_version)
    IN  IF ~try.raised THEN [emitted |-> try.emitted, escaped |-> FALSE]
        ELSE IF ~Caught(try.exc) THEN [emitted |-> try.emitted, escaped |-> TRUE]
        ELSE IF try.exc.type = "JSONDecodeError"
        THEN [emitted |-> try.emitted \o
                  <<Signal("check_failed", <<<<"Invalid response from server">>>>)>>,
              escaped |-> FALSE]
        ELSE [emitted |-> try.emitted \o <<Signal("check_failed", <<try.exc.msg>>)>>,
              escaped |-> FALSE]

\* most assets of a release
MaxAssets == 2

Url(name) == JStr(<<"https://", name>>)

\* what the assets list of a release can hold
Assets ==
    {JObj([name |-> JStr(<<"AbletonHub", ".msi">>), browser_download_url |-> Url("msi")]),
     JObj([name |-> JStr(<<"AbletonHub", ".DMG">>), browser_download_url |-> Url("dmg")]),
     JObj([name |-> JStr(<<"AbletonHub", ".msi">>), browser_download_url |-> JNull]),
     JObj([name |-> JStr(<<"AbletonHub", ".zip">>), browser_download_url |-> Url("zip")]),
     JObj([name |-> JNull, browser_download_url |-> Url("none")]),
     JStr(<<"AbletonHub", ".msi">>)}

AssetLists == UNION {[1..n -> Assets] : n \in 0..MaxAssets}

\* the tags of a release
Tags ==
    {JNull, JNum(1), JStr(<<>>), JStr(<<"v", "0", ".", "3", ".", "0">>),
     JStr(<<"v", "0", ".", "3", ".", "1">>), JStr(<<"0", ".", "1", "0">>),
     JStr(<<"0", ".", "3">>), JStr(<<"v", "1", ".", "sup2">>), JStr(<<"v", "0", ".", "3", ".", "1", "b", "1">>)}

\* the keys a release object carries: all three, or one of them missing
ReleaseFields(t, u, a) ==
    {[tag_name |-> t, html_url |-> u, assets |-> a],
     [tag_name |-> t, assets |-> a],
     [html_url |-> u, assets |-> a],
     [tag_name |-> t, html_url |-> u]}

\* the bodies of a reply
Bodies ==
    {[kind |-> "bad_utf8"], [kind |-> "not_json"]}
    \cup {[kind |-> "json", json |-> j] : j \in {JNull, JNum(1), JStr(<<"ok">>), JList(<<>>)}}
    \cup {[kind |-> "json", json |-> JObj(f)] :
            f \in UNION {ReleaseFields(x[1], x[2], x[3]) :
                            x \in Tags \X {JStr(<<"https://", "release">>), JNull}
                                       \X ({JNull} \cup {JList(l) : l \in AssetLists})}}

\* the replies the network can finish with
Replies ==
    {[error |-> TRUE, errorString |-> e, body |-> [kind |-> "not_json"]] :
        e \in {<<>>, <<"Host not found">>}}
    \cup {[error |-> FALSE, errorString |-> <<>>, body |-> b] : b \in Bodies}

InitChecker ==
    /\ pc = "idle"
    /\ \E platform \in {"win32", "darwin", "linux"} :
        checker = [platform |-> platform,
                   _current_version |-> <<"0", ".", "3", ".", "0">>,
                   reply |-> Idle, emitted |-> <<>>, escaped |-> FALSE]
    /\ similar = Idle /\ recs = Idle /\ names = Idle /\ scan = Idle /\ live = Idle
    /\ als = Idle /\ result = Idle
    /\ cmp_main = Idle /\ cmp_backups = Idle /\ comparison = Idle
    /\ project = Idle /\ results = Idle /\ unique_tags = {} /\ sim = Idle

\* check(): the request goes out
Check ==
    /\ pc = "idle"
    /\ pc' = "requested"
    /\ UNCHANGED <<als, result, cmp_main, cmp_backups, comparison, project, results,
                   unique_tags, sim, similar, recs, names, checker, scan, live>>

\* the network manager's finished signal calls _on_finished with the reply
OnFinished ==
    /\ pc = "requested"
    /\ \E reply \in Replies :
        LET done == _on_finished(reply, checker.platform, checker._current_version)
        IN  checker' = [checker EXCEPT !.reply = reply,
                                       !.emitted = @ \o done.emitted,
                                       !.escaped = done.escaped]
    /\ pc' = "finished"
    /\ UNCHANGED <<als, result, cmp_main, cmp_backups, comparison, project, results,
                   unique_tags, sim, similar, recs, names, scan, live>>

NextChecker == Check \/ OnFinished

SpecChecker == InitChecker /\ [][NextChecker]_vars

\* most characters of the last component of a version
MaxComponent == 3

\* the last components: digits, letters of a suffix and dashes
Components == UNION {[1..n -> {"7", "8", "1", "b", "-"}] : n \in 0..MaxComponent}

\* the versions compared: 1.0.<component>, and versions of other lengths
VersionStrings ==
    {<<"1", ".", "0", ".">> \o c : c \in Components}
    \cup {<<>>, <<"v", "1", ".", "0">>, <<" ", "v", "v", "1", ".", "0", ".", "8", " ">>,
          <<"1", ".", "0", ".", "7", ".", "1">>, <<"2">>}

InitNewer ==
    /\ pc = "compare_versions"
    /\ \E latest \in VersionStrings, current \in VersionStrings :
        checker = [latest |-> latest, current |-> current, parsed |-> <<>>,
                   newer |-> FALSE, newer_swapped |-> FALSE, newer_than_itself |-> FALSE]
    /\ similar = Idle /\ recs = Idle /\ names = Idle /\ scan = Idle /\ live = Idle
    /\ als = Idle /\ result = Idle
    /\ cmp_main = Idle /\ cmp_backups = Idle /\ comparison = Idle
    /\ project = Idle /\ results = Idle /\ unique_tags = {} /\ sim = Idle

\* _parse_version(latest), and _is_newer called on the two versions, on the
\* two swapped and on the first with itself
IsNewer ==
    /\ pc = "compare_versions"
    /\ checker' = [checker EXCEPT
            !.parsed = parse_version_tuple(checker.latest),
            !.newer = _is_newer(checker.latest, checker.current),
            !.newer_swapped = _is_newer(checker.current, checker.latest),
            !.newer_than_itself = _is_newer(checker.latest, checker.latest)]
    /\ pc' = "compared_versions"
    /\ UNCHANGED <<als, result, cmp_main, cmp_backups, comparison, project, results,
                   unique_tags, sim, similar, recs, names, scan, live>>

NextNewer == IsNewer

SpecNewer == InitNewer /\ [][NextNewer]_vars

-----------------------------------------------------------------------------
(* ui/widgets/recommendations_panel.py.  The panel holds the id of the       *)
(* current project, the visibility of its progress bar and of the group of   *)
(* the current project, and what its two lists show.  The Project table is   *)
(* the set of the ids it holds; a call on the session, the analyzer or the   *)
(* engine either returns or raises.                                          *)

\* the ids a project can have
MaxProjects == 3

ProjectIds == 1..MaxProjects

\* the calls of _refresh_recommendations that can raise
RefreshFailures ==
    {"none", "get_session", "query.get", "query.all", "find_similar_projects",
     "recommend_similar_projects"}

\* the calls of _update_current_project_display that can raise
DisplayFailures == {"none", "get_session", "query.get"}

\* self._current_project_id is truthy: not None and not 0
HasCurrentProject(p) == p._current_project_id.has /\ p._current_project_id.v # 0

\* the except clause of _refresh_recommendations
RefreshExcept(p) ==
    [p EXCEPT !.similar_list = "Error", !.recommendations_list = "",
              !.progress_bar = FALSE, !.returned = "exception"]

\* the finally clause of the inner try: session.close()
SessionClose(p) == [p EXCEPT !.open_sessions = @ - 1]

\* the inner try of _refresh_recommendations once get_session() has returned;
\* a return inside it runs the finally clause and leaves the method
RefreshWithSession(p, failing, similar_found, recommendations_found) ==
    LET id == p._current_project_id.v
        listed == [p EXCEPT !.similar_list =
                        IF similar_found THEN "projects"
                        ELSE "No similar projects found"]
        recommended == [listed EXCEPT !.recommendations_list =
                        IF recommendations_found THEN "projects"
                        ELSE "No recommendations available"]
    IN  IF failing = "query.get" THEN RefreshExcept(SessionClose(p))
        ELSE IF id \notin p.database
        THEN [SessionClose(p) EXCEPT !.returned = "project not in database"]
        ELSE IF failing = "query.all" THEN RefreshExcept(SessionClose(p))
        ELSE IF p.database \ {id} = {}
        THEN SessionClose([p EXCEPT !.similar_list = "No other projects found",
                                    !.progress_bar = FALSE,
                                    !.returned = "no other projects"])
        ELSE IF failing = "find_similar_projects" THEN RefreshExcept(SessionClose(p))
        ELSE IF failing = "recommend_similar_projects"
        THEN RefreshExcept(SessionClose(listed))
        ELSE [SessionClose(recommended) EXCEPT !.progress_bar = FALSE,
                                               !.returned = "refreshed"]

_refresh_recommendations(p, failing, similar_found, recommendations_found) ==
    IF ~HasCurrentProject(p)
    THEN [p EXCEPT !.similar_list = "Select a project to see similar projects",
                   !.recommendations_list = "",
                   !.returned = "no project selected"]
    ELSE LET shown == [p EXCEPT !.progress_bar = TRUE]
         IN  IF failing = "get_session" THEN RefreshExcept(shown)
             ELSE RefreshWithSession([shown EXCEPT !.open_sessions = @ + 1],
                                     failing, similar_found, recommendations_found)

\* _update_current_project_display when none of its calls raises
_update_current_project_display(p) ==
    IF ~HasCurrentProject(p)
    THEN [p EXCEPT !.current_project_group = FALSE]
    ELSE [p EXCEPT !.current_project_group = p._current_project_id.v \in p.database]

InitPanel ==
    /\ pc = "panel"
    /\ \E database \in SUBSET ProjectIds :
        recs = [_current_project_id |-> NoneNum, database |-> database,
                progress_bar |-> FALSE, current_project_group |-> FALSE,
                similar_list |-> "", recommendations_list |-> "",
                open_sessions |-> 0, returned |-> "not called"]
    /\ similar = Idle /\ names = Idle /\ checker = Idle /\ scan = Idle /\ live = Idle
    /\ als = Idle /\ result = Idle
    /\ cmp_main = Idle /\ cmp_backups = Idle /\ comparison = Idle
    /\ project = Idle /\ results = Idle /\ unique_tags = {} /\ sim = Idle

\* set_project(project_id); an exception of _update_current_project_display
\* leaves set_project before _refresh_recommendations is called
SetProject ==
    /\ \E project_id \in ProjectIds, display_failing \in DisplayFailures,
          failing \in RefreshFailures, similar_found \in BOOLEAN,
          recommendations_found \in BOOLEAN :
        LET assigned == [recs EXCEPT !._current_project_id = Num(project_id)]
        IN  recs' = IF display_failing # "none" THEN assigned
                    ELSE _refresh_recommendations(
                             _update_current_project_display(assigned),
                             failing, similar_found, recommendations_found)
    /\ UNCHANGED <<pc, als, result, cmp_main, cmp_backups, comparison, project, results,
                   unique_tags, sim, similar, names, checker, scan, live>>

\* a click on the Refresh button
RefreshClicked ==
    /\ \E failing \in RefreshFailures, similar_found \in BOOLEAN,
          recommendations_found \in BOOLEAN :
        recs' = _refresh_recommendations(recs, failing, similar_found,
                                         recommendations_found)
    /\ UNCHANGED <<pc, als, result, cmp_main, cmp_backups, comparison, project, results,
                   unique_tags, sim, similar, names, checker, scan, live>>

\* the rest of the application adds a project to the Project table
ProjectAdded ==
    /\ \E id \in ProjectIds \ recs.database :
        recs' = [recs EXCEPT !.database = @ \cup {id}]
    /\ UNCHANGED <<pc, als, result, cmp_main, cmp_backups, comparison, project, results,
                   unique_tags, sim, similar, names, checker, scan, live>>

\* the rest of the application deletes a project from the Project table
ProjectDeleted ==
    /\ \E id \in recs.database :
        recs' = [recs EXCEPT !.database = @ \ {id}]
    /\ UNCHANGED <<pc, als, result, cmp_main, cmp_backups, comparison, project, results,
                   unique_tags, sim, similar, names, checker, scan, live>>

NextPanel == SetProject \/ RefreshClicked \/ ProjectAdded \/ ProjectDeleted

SpecPanel == InitPanel /\ [][NextPanel]_vars

-----------------------------------------------------------------------------
(* ui/widgets/find_audio_exports_view.py.  The view runs in the main thread, *)
(* every AudioScanWorker in a thread of its own.  A signal a worker emits    *)
(* while a slot of the view is connected to it is posted to the main thread, *)
(* which calls the slot later; PyQt6 ignores a posted emission when the slot *)
(* has been disconnected in between.  scan holds the view, the workers made  *)
(* so far and the emissions posted and not yet delivered.                    *)

\* the workers the view makes
MaxScanWorkers == 2

\* self._scan_worker is None
NoWorker == 0

\* the audio files below the location, in the order a scan finds them
ScannedFiles == <<<<"a", ".wav">>, <<"b", ".wav">>>>

ScannedPaths == {ScannedFiles[i] : i \in 1..Len(ScannedFiles)}

\* AudioScanWorker(location_path) with its two signals connected to the view
NewWorker ==
    [at |-> "started", _stop_requested |-> FALSE, _found_count |-> 0,
     connected |-> TRUE, stopped |-> FALSE]

\* _safely_stop_thread(thread, worker): worker.stop() and the two disconnect()
\* calls; stopped records that the view has stopped the worker
StopWithoutDisconnect(s, w) ==
    IF w = NoWorker THEN s
    ELSE [s EXCEPT !.workers[w]._stop_requested = TRUE,
                   !.workers[w].stopped = TRUE]

_safely_stop_thread(s, w) ==
    IF w = NoWorker THEN s
    ELSE [s EXCEPT !.workers[w]._stop_requested = TRUE,
                   !.workers[w].connected = FALSE,
                   !.workers[w].stopped = TRUE]

_stop_workers(s) ==
    [_safely_stop_thread(s, s.view._scan_worker) EXCEPT !.view._scan_worker = NoWorker]

\* _start_scan; exists is what location_path.exists() returns
_start_scan(s, exists) ==
    IF ~s.view._location THEN s
    ELSE LET stopped == _stop_workers(s)
             reset == [stopped EXCEPT
                        !.view.rows = <<>>,
                        !.view._unmapped_count = 0,
                        !.view.status = [text |-> "Scanning for audio files...", n |-> 0]]
         IN  IF ~exists
             THEN [reset EXCEPT !.view.status =
                        [text |-> "Location path does not exist.", n |-> 0]]
             ELSE [reset EXCEPT !.workers = Append(@, NewWorker),
                                !.view._scan_worker = Len(reset.workers) + 1]

\* _on_file_found for a path worker w has emitted
_on_file_found(s, w, path) ==
    IF path \in s.view._mapped_paths THEN s
    ELSE [s EXCEPT !.view._unmapped_count = @ + 1,
                   !.view.rows = Append(@, [worker |-> w, path |-> path])]

_on_scan_complete(s) ==
    [s EXCEPT !.view.status =
        IF s.view._unmapped_count = 0
        THEN [text |-> "No unmapped audio files found.", n |-> 0]
        ELSE [text |-> "Found n unmapped audio file(s).", n |-> s.view._unmapped_count]]

InitView ==
    /\ pc = "view"
    /\ scan = [view |-> [_location |-> FALSE, _mapped_paths |-> {},
                         _unmapped_count |-> 0, _scan_worker |-> NoWorker,
                         rows |-> <<>>, status |-> [text |-> "", n |-> 0],
                         rescan_enabled |-> FALSE,
                         stale_slot_ran |-> FALSE, stale_ignored |-> FALSE],
               workers |-> <<>>,
               posted |-> <<>>]
    /\ similar = Idle /\ recs = Idle /\ names = Idle /\ checker = Idle /\ live = Idle
    /\ als = Idle /\ result = Idle
    /\ cmp_main = Idle /\ cmp_backups = Idle /\ comparison = Idle
    /\ project = Idle /\ results = Idle /\ unique_tags = {} /\ sim = Idle

\* set_location(location_id): found is whether the Location row exists, mapped
\* the export paths below it that a project is linked to
SetLocation ==
    /\ \E found \in BOOLEAN, exists \in BOOLEAN, mapped \in SUBSET ScannedPaths :
        /\ (found /\ exists) => Len(scan.workers) < MaxScanWorkers
        /\ LET cleared == [scan EXCEPT !.view._mapped_paths = {}, !.view._location = found]
           IN  scan' = IF ~found
                       THEN [cleared EXCEPT !.view.status =
                                [text |-> "Location not found.", n |-> 0]]
                       ELSE _start_scan([cleared EXCEPT !.view._mapped_paths = mapped,
                                                        !.view.rescan_enabled = TRUE],
                                        exists)
    /\ UNCHANGED <<pc, als, result, cmp_main, cmp_backups, comparison, project, results,
                   unique_tags, sim, similar, recs, names, checker, live>>

\* a click on the Rescan button
RescanClicked ==
    /\ scan.view.rescan_enabled
    /\ \E exists \in BOOLEAN :
        /\ (scan.view._location /\ exists) => Len(scan.workers) < MaxScanWorkers
        /\ scan' = _start_scan(scan, exists)
    /\ UNCHANGED <<pc, als, result, cmp_main, cmp_backups, comparison, project, results,
                   unique_tags, sim, similar, recs, names, checker, live>>

\* cleanup()
Cleanup ==
    /\ scan' = _stop_workers(scan)
    /\ UNCHANGED <<pc, als, result, cmp_main, cmp_backups, comparison, project, results,
                   unique_tags, sim, similar, recs, names, checker, live>>

\* _on_project_changed(row, index): the file of a row is linked to a project
\* or its link is removed
ProjectChanged ==
    /\ \E row \in 1..Len(scan.view.rows), linked \in BOOLEAN :
        LET path == scan.view.rows[row].path
        IN  /\ linked # (path \in scan.view._mapped_paths)
            /\ scan' = [scan EXCEPT !.view._mapped_paths =
                            IF linked THEN @ \cup {path} ELSE @ \ {path}]
    /\ UNCHANGED <<pc, als, result, cmp_main, cmp_backups, comparison, project, results,
                   unique_tags, sim, similar, recs, names, checker, live>>

\* the thread of worker w enters run()
WorkerRun ==
    /\ \E w \in 1..Len(scan.workers) :
        /\ scan.workers[w].at = "started"
        /\ scan' = [scan EXCEPT !.workers[w].at = "scanning",
                                !.workers[w]._stop_requested = FALSE,
                                !.workers[w]._found_count = 0]
    /\ UNCHANGED <<pc, als, result, cmp_main, cmp_backups, comparison, project, results,
                   unique_tags, sim, similar, recs, names, checker, live>>

\* worker w finds its next file and emits file_found
WorkerFileFound ==
    /\ \E w \in 1..Len(scan.workers) :
        /\ scan.workers[w].at = "scanning"
        /\ ~scan.workers[w]._stop_requested
        /\ scan.workers[w]._found_count < Len(ScannedFiles)
        /\ LET found == ScannedFiles[scan.workers[w]._found_count + 1]
               counted == [scan EXCEPT !.workers[w]._found_count = @ + 1]
           IN  scan' = IF scan.workers[w].connected
                       THEN [counted EXCEPT !.posted = Append(@,
                                [worker |-> w, signal |-> "file_found", path |-> found])]
                       ELSE counted
    /\ UNCHANGED <<pc, als, result, cmp_main, cmp_backups, comparison, project, results,
                   unique_tags, sim, similar, recs, names, checker, live>>

\* worker w leaves _scan_folder, at the end of the tree or on a stop request,
\* and emits scan_complete
WorkerScanComplete ==
    /\ \E w \in 1..Len(scan.workers) :
        /\ scan.workers[w].at = "scanning"
        /\ scan.workers[w]._stop_requested
            \/ scan.workers[w]._found_count = Len(ScannedFiles)
        /\ LET done == [scan EXCEPT !.workers[w].at = "finished"]
           IN  scan' = IF scan.workers[w].connected
                       THEN [done EXCEPT !.posted = Append(@,
                                [worker |-> w, signal |-> "scan_complete", path |-> <<>>])]
                       ELSE done
    /\ UNCHANGED <<pc, als, result, cmp_main, cmp_backups, comparison, project, results,
                   unique_tags, sim, similar, recs, names, checker, live>>

\* the main thread delivers the oldest posted emission: the slot runs if it is
\* still connected to the worker, and the emission is ignored otherwise
DeliverPosted ==
    /\ scan.posted # <<>>
    /\ LET e == Head(scan.posted)
           taken == [scan EXCEPT !.posted = Tail(@)]
           ran == IF e.signal = "file_found"
                  THEN _on_file_found(taken, e.worker, e.path)
                  ELSE _on_scan_complete(taken)
       IN  scan' = IF scan.workers[e.worker].connected
                   THEN [ran EXCEPT !.view.stale_slot_ran =
                                @ \/ scan.workers[e.worker].stopped]
                   ELSE [taken EXCEPT !.view.stale_ignored = TRUE]
    /\ UNCHANGED <<pc, als, result, cmp_main, cmp_backups, comparison, project, results,
                   unique_tags, sim, similar, recs, names, checker, live>>

NextView ==
    \/ RescanClicked \/ SetLocation \/ Cleanup \/ ProjectChanged
    \/ WorkerRun \/ WorkerFileFound \/ WorkerScanComplete \/ DeliverPosted

SpecView == InitView /\ [][NextView]_vars

----------------------------------------------------------------------------
(* ui/workers/audio_scan_worker.py.  A name is a sequence of tokens, a leading *)
(* dot being a token of its own; a path is the sequence of the names from the  *)
(* file-system root, so str(path) has a "/" before every name and between two  *)
(* names.                                                                      *)

\* the extensions of audio files
AUDIO_EXTENSIONS == {".wav", ".mp3", ".flac"}

\* the names between slashes in exclude_patterns; the patterns written with
\* backslashes have the same names and match nothing once "\\" is replaced
exclude_patterns ==
    {<<"Backup">>, <<"Samples">>, <<".", "git">>, <<"Ableton Project Info">>,
     <<"__pycache__">>, <<"node_modules">>}

\* "/<name>/" in path_str: the name, with a slash after it as well as before
PatternIn(name, path) == \E i \in 1..(Len(path) - 1) : path[i] = name

_is_excluded(path) ==
    \/ Head(path[Len(path)]) = "."
    \/ \E pattern \in exclude_patterns : PatternIn(pattern, path)

\* most directories below the scanned location
MaxDirs == 3

\* the names the directories below the location have
DirNames == {<<"Backup">>, <<".", "git">>, <<"Music">>}

\* the files every directory holds
FileNames == {<<"a", ".WAV">>, <<"notes", ".txt">>}

\* the directory trees below the location: directory k lies in directory
\* parent[k], 0 being the location itself, and no two directories of one
\* parent have one name
Trees ==
    UNION {{[n |-> n, parent |-> par, name |-> nm] :
                par \in {f \in [1..n -> 0..(n - 1)] : \A k \in 1..n : f[k] < k},
                nm \in [1..n -> DirNames]} :
           n \in 0..MaxDirs}

WellFormed(tree) ==
    \A j, k \in 1..tree.n :
        (j # k /\ tree.parent[j] = tree.parent[k]) => tree.name[j] # tree.name[k]

\* the path of directory d of the tree
RECURSIVE PathOf(_, _, _)
PathOf(location, tree, d) ==
    IF d = 0 THEN location
    ELSE PathOf(location, tree, tree.parent[d]) \o <<tree.name[d]>>

\* folder.iterdir(): the files and the directories of directory d
IterDir(tree, d) ==
    {[is_file |-> TRUE, dir |-> d, name |-> f] : f \in FileNames}
    \cup {[is_file |-> FALSE, dir |-> k, name |-> tree.name[k]] :
            k \in {j \in 1..tree.n : tree.parent[j] = d}}

\* the path of an item of a directory
ItemPath(location, tree, item) ==
    IF item.is_file THEN PathOf(location, tree, item.dir) \o <<item.name>>
    ELSE PathOf(location, tree, item.dir)

\* item.suffix.lower()
SuffixLower(name) == LowerTok(name[Len(name)])

\* what item.stat() does for a file that is_file() has just seen: it returns,
\* or raises PermissionError, or raises another OSError (the file is gone)
StatOutcomes == {"returns", "PermissionError", "FileNotFoundError"}

\* start() has been called and run() has not begun.  stop_called and
\* found_after_stop record the calls of stop() and the file_found signals
\* emitted after the first of them
InitScan ==
    /\ pc = "idle"
    /\ \E tree \in {t \in Trees : WellFormed(t)} :
       \E location \in {<<<<"home">>, <<"Music">>>>, <<<<"Samples">>, <<"Music">>>>} :
       \E exists \in BOOLEAN :
        /\ exists \/ tree.n = 0
        /\ scan = [_location_path |-> location, exists |-> exists, tree |-> tree,
                   stack |-> <<>>, _stop_requested |-> FALSE, _found_count |-> 0,
                   file_found |-> {}, scan_complete |-> <<>>,
                   stop_called |-> FALSE, found_after_stop |-> 0]
    /\ similar = Idle /\ recs = Idle /\ names = Idle /\ checker = Idle /\ live = Idle
    /\ als = Idle /\ result = Idle
    /\ cmp_main = Idle /\ cmp_backups = Idle /\ comparison = Idle
    /\ project = Idle /\ results = Idle /\ unique_tags = {} /\ sim = Idle

\* run(), up to the call of _scan_folder for the location
Run ==
    /\ pc = "idle"
    /\ IF ~scan.exists
       THEN /\ scan' = [scan EXCEPT !._stop_requested = FALSE, !._found_count = 0,
                                    !.scan_complete = Append(@, 0)]
            /\ pc' = "done"
       ELSE /\ scan' = [scan EXCEPT !._stop_requested = FALSE, !._found_count = 0,
                                    !.stack = <<[folder |-> 0, todo |-> IterDir(scan.tree, 0)]>>]
            /\ pc' = "scanning"
    /\ UNCHANGED <<als, result, cmp_main, cmp_backups, comparison, project, results,
                   unique_tags, sim, similar, recs, names, checker, live>>

\* one turn of the loop of _scan_folder, in the innermost call
ScanItem ==
    /\ pc = "scanning"
    /\ scan.stack # <<>>
    /\ LET top == Len(scan.stack)
       IN  \E item \in scan.stack[top].todo : \E stat \in StatOutcomes :
            IF scan._stop_requested
            THEN /\ scan' = [scan EXCEPT !.stack[top].todo = {}]
                 /\ pc' = pc
            ELSE IF item.is_file
            THEN IF SuffixLower(item.name) \in AUDIO_EXTENSIONS
                 THEN CASE stat = "returns" ->
                            /\ scan' = [scan EXCEPT
                                    !.stack[top].todo = @ \ {item},
                                    !._found_count = @ + 1,
                                    !.file_found = @ \cup
                                        {ItemPath(scan._location_path, scan.tree, item)},
                                    !.found_after_stop =
                                        IF scan.stop_called THEN @ + 1 ELSE @]
                            /\ pc' = pc
                        [] stat = "PermissionError" ->
                            /\ scan' = [scan EXCEPT !.stack[top].todo = {},
                                                    !._found_count = @ + 1]
                            /\ pc' = pc
                        [] OTHER ->
                            /\ scan' = [scan EXCEPT !.stack = <<>>,
                                                    !._found_count = @ + 1]
                            /\ pc' = "raised"
                 ELSE /\ scan' = [scan EXCEPT !.stack[top].todo = @ \ {item}]
                      /\ pc' = pc
            ELSE IF ~_is_excluded(ItemPath(scan._location_path, scan.tree, item))
            THEN /\ scan' = [scan EXCEPT !.stack =
                         [@ EXCEPT ![top].todo = @ \ {item}]
                         \o <<[folder |-> item.dir, todo |-> IterDir(scan.tree, item.dir)]>>]
                 /\ pc' = pc
            ELSE /\ scan' = [scan EXCEPT !.stack[top].todo = @ \ {item}]
                 /\ pc' = pc
    /\ UNCHANGED <<als, result, cmp_main, cmp_backups, comparison, project, results,
                   unique_tags, sim, similar, recs, names, checker, live>>

\* the loop of the innermost call is over: _scan_folder returns, and run()
\* emits scan_complete when it was the call for the location
ReturnFromFolder ==
    /\ pc = "scanning"
    /\ scan.stack # <<>>
    /\ scan.stack[Len(scan.stack)].todo = {}
    /\ IF Len(scan.stack) = 1
       THEN /\ scan' = [scan EXCEPT !.stack = <<>>,
                                    !.scan_complete = Append(@, scan._found_count)]
            /\ pc' = "done"
       ELSE /\ scan' = [scan EXCEPT !.stack = SubSeq(@, 1, Len(@) - 1)]
            /\ pc' = pc
    /\ UNCHANGED <<als, result, cmp_main, cmp_backups, comparison, project, results,
                   unique_tags, sim, similar, recs, names, checker, live>>

\* iterdir() of the innermost call raises PermissionError: the loop is left
\* and the exception is passed over
PermissionDenied ==
    /\ pc = "scanning"
    /\ scan.stack # <<>>
    /\ scan.stack[Len(scan.stack)].todo # {}
    /\ scan' = [scan EXCEPT !.stack[Len(scan.stack)].todo = {}]
    /\ pc' = pc
    /\ UNCHANGED <<als, result, cmp_main, cmp_backups, comparison, project, results,
                   unique_tags, sim, similar, recs, names, checker, live>>

\* stop(), called from the thread of the interface once the worker is started
Stop ==
    /\ pc \in {"idle", "scanning"}
    /\ ~scan.stop_called
    /\ scan' = [scan EXCEPT !._stop_requested = TRUE, !.stop_called = TRUE]
    /\ pc' = pc
    /\ UNCHANGED <<als, result, cmp_main, cmp_backups, comparison, project, results,
                   unique_tags, sim, similar, recs, names, checker, live>>

NextScan == Run \/ ScanItem \/ ReturnFromFolder \/ PermissionDenied \/ Stop

SpecScan == InitScan /\ [][NextScan]_vars

----------------------------------------------------------------------------
(* services/live_detector.py.  A version is a sequence of characters.          *)

\* int(x) reads x: x is one or more decimal digits
IsInt(x) == x # <<>> /\ \A i \in 1..Len(x) : IsDigit(x[i]) /\ x[i] # "sup2"

\* the first n elements of s
FirstN(s, n) == SubSeq(s, 1, IF Len(s) < n THEN Len(s) ELSE n)

\* parts, padded with zeros to three
PadToThree(parts) == parts \o [k \in 1..(3 - Len(parts)) |-> 0]

\* LiveDetector._parse_version
_parse_version(version_str) ==
    LET xs == Split(version_str, ".")
    IN  IF \E k \in 1..Len(xs) : ~IsInt(xs[k]) THEN <<0, 0, 0>>
        ELSE FirstN(PadToThree([k \in 1..Len(xs) |-> IntOf(xs[k])]), 3)

\* a <= b for tuples of numbers
TupleLeq(a, b) == ~TupleGreater(a, b)

\* sorted(..., reverse=True) one element further: v goes behind the elements
\* whose key is not below its own, so equal keys keep their order
InsertNewestFirst(sorted, v) ==
    LET ahead == Cardinality({i \in 1..Len(sorted) :
                     TupleLeq(_parse_version(v.version), _parse_version(sorted[i].version))})
    IN  SubSeq(sorted, 1, ahead) \o <<v>> \o SubSeq(sorted, ahead + 1, Len(sorted))

\* sorted(self._versions, key=lambda v: self._parse_version(v.version), reverse=True)
RECURSIVE SortedNewestFirst(_)
SortedNewestFirst(versions) ==
    IF versions = <<>> THEN <<>>
    ELSE InsertNewestFirst(SortedNewestFirst(SubSeq(versions, 1, Len(versions) - 1)),
                           versions[Len(versions)])

\* the text before the first letter of x: re.sub(r"[a-zA-Z].*$", "", x)
RECURSIVE BeforeLetters(_)
BeforeLetters(x) ==
    IF x = <<>> \/ ~IsDigit(Head(x)) THEN <<>> ELSE <<Head(x)>> \o BeforeLetters(Tail(x))

LiveVersion(version, path) == [version |-> version, path |-> path]

\* most installations found
MaxVersions == 2

\* what the pattern \d+(?:\.\d+)*(?:[a-zA-Z]+\d+)? takes from the folder names
FolderVersions ==
    {<<"1", "2">>, <<"9">>, <<"1", "1", ".", "3">>, <<"1", "1", ".", "3", ".", "1", "3">>,
     <<"1", "2", ".", "0", ".", "5", "b", "1">>, <<"1", "2", ".", "0", ".", "5", ".", "1">>,
     <<"1", "2", "b", "1">>}

\* what _get_exe_version reads from the executable, None when it reads nothing
ExeVersions == {NoneStr, Str(<<"1", "2", ".", "3", ".", "5">>), Str(<<"1", "2", ".", "3", "r", "c", "2">>)}

InitLive ==
    /\ pc = "scanning"
    /\ \E platform \in {"win32", "darwin", "linux"} :
        live = [platform |-> platform, _versions |-> <<>>, raised |-> FALSE, returned |-> Idle]
    /\ similar = Idle /\ recs = Idle /\ names = Idle /\ checker = Idle /\ scan = Idle
    /\ als = Idle /\ result = Idle
    /\ cmp_main = Idle /\ cmp_backups = Idle /\ comparison = Idle
    /\ project = Idle /\ results = Idle /\ unique_tags = {} /\ sim = Idle

\* one folder of an installation in the loop of _scan_windows, _scan_macos or
\* _scan_linux, its executable found at a path not recorded before
ScanInstallation ==
    /\ pc = "scanning"
    /\ Len(live._versions) < MaxVersions
    /\ \E version_num \in FolderVersions, exe_version \in ExeVersions :
        LET first == Split(version_num, ".")[1]
            major_version == IntOf(IF live.platform = "win32" THEN first
                                   ELSE BeforeLetters(first))
            version_str == IF live.platform = "linux" \/ ~exe_version.has
                              \/ exe_version.v = version_num
                           THEN version_num
                           ELSE exe_version.v
            found == LiveVersion(version_str, Len(live._versions) + 1)
        IN  IF live.platform = "linux"
            THEN /\ live' = [live EXCEPT !._versions = Append(@, found)]
                 /\ pc' = pc
            ELSE IF live.platform = "win32" /\ ~IsInt(first)
            THEN /\ live' = [live EXCEPT !.raised = TRUE]
                 /\ pc' = "raised"
            ELSE IF major_version >= 10
            THEN /\ live' = [live EXCEPT !._versions = Append(@, found)]
                 /\ pc' = pc
            ELSE /\ live' = live
                 /\ pc' = pc
    /\ UNCHANGED <<als, result, cmp_main, cmp_backups, comparison, project, results,
                   unique_tags, sim, similar, recs, names, checker, scan>>

\* _scan returns and get_versions() is called
GetVersions ==
    /\ pc = "scanning"
    /\ live' = [live EXCEPT !.returned = SortedNewestFirst(live._versions)]
    /\ pc' = "returned"
    /\ UNCHANGED <<als, result, cmp_main, cmp_backups, comparison, project, results,
                   unique_tags, sim, similar, recs, names, checker, scan>>

NextLive == ScanInstallation \/ GetVersions

SpecLive == InitLive /\ [][NextLive]_vars

----------------------------------------------------------------------------
(* Properties of the comparator, under SpecCompare *)

\* how many entries of a list name the backup with this path
EntriesFor(list, path) ==
    Cardinality({k \in 1..Len(list) : list[k].backup = path})

\* the entries of a list name the backups in the order of the backups
InBackupOrder(list) ==
    \A k \in 1..Len(list) : \A l \in 1..Len(list) :
        k < l => list[k].backup < list[l].backup

\* C1: for every backup, exactly one tempo-changed entry is emitted if and only if
\* both tempos are present (not None) and differ by more than 0.1 BPM.
C1_TempoEntryIffPresentAndFar ==
    pc = "compared" =>
        \A i \in 1..Len(cmp_backups) :
            EntriesFor(comparison.timing_changes, i) =
                IF /\ tempo_of(cmp_main).has
                   /\ tempo_of(cmp_backups[i]).has
                   /\ Abs(tempo_of(cmp_backups[i]).v - tempo_of(cmp_main).v) > TempoTolerance
                THEN 1 ELSE 0

\* C2: for every backup and each of the three counts, exactly one entry naming the
\* backup is in the corresponding list if and only if the backup's count differs
\* from the main record's; no list is longer than the list of backups; the entries
\* are in backup order.
C2_CountEntryIffDiffers ==
    pc = "compared" =>
        /\ \A i \in 1..Len(cmp_backups) :
            /\ EntriesFor(comparison.track_changes, i) =
                    IF total_count_of(cmp_backups[i]) # total_count_of(cmp_main) THEN 1 ELSE 0
            /\ EntriesFor(comparison.device_changes, i) =
                    IF device_count_of(cmp_backups[i]) # device_count_of(cmp_main) THEN 1 ELSE 0
            /\ EntriesFor(comparison.plugin_changes, i) =
                    IF plugin_count_of(cmp_backups[i]) # plugin_count_of(cmp_main) THEN 1 ELSE 0
        /\ Len(comparison.track_changes) <= Len(cmp_backups)
        /\ Len(comparison.device_changes) <= Len(cmp_backups)
        /\ Len(comparison.plugin_changes) <= Len(cmp_backups)
        /\ InBackupOrder(comparison.track_changes)
        /\ InBackupOrder(comparison.device_changes)
        /\ InBackupOrder(comparison.plugin_changes)

\* a comparison of two backups, of which the first has fewer tracks than the main
\* file and the second has as many, and one has other device and plugin counts
C2_Witness ==
    /\ pc = "compared"
    /\ Len(cmp_backups) = 2
    /\ total_count_of(cmp_backups[1]) < total_count_of(cmp_main)
    /\ total_count_of(cmp_backups[2]) = total_count_of(cmp_main)
    /\ Len(comparison.track_changes) = 1
    /\ Len(comparison.device_changes) = 2
    /\ Len(comparison.plugin_changes) = 1

----------------------------------------------------------------------------
(* Properties of analyze_file, under SpecFile *)

\* analyze_file has returned the record of a document it read and walked
Extracted == pc = "returned" /\ als.kind = "xml" /\ "error" \notin DOMAIN result

\* the files whose gzip decompression fails
GzipFailures == {"not_gzip", "truncated_gzip"}

\* the files that decompress to a payload that is not well-formed markup
ParseFailures == {"bad_xml", "empty_payload"}

Unqualified(tag) ==
    IF tag # <<>> /\ Head(tag) = "{"
    THEN SubSeq(tag, (CHOOSE i \in 1..Len(tag) :
                        tag[i] = "}" /\ \A j \in 1..(i - 1) : tag[j] # "}") + 1, Len(tag))
    ELSE tag

TrackTags ==
    {<<"Audio", "Track">>, <<"Midi", "Track">>, <<"Return", "Track">>,
     <<"Group", "Track">>, <<"Master", "Track">>}

\* the document with the namespace taken off its track elements
UnqualifyTracks(doc) ==
    [i \in 1..Len(doc) |->
        IF Unqualified(doc[i].tag) \in TrackTags
        THEN [doc[i] EXCEPT !.tag = Unqualified(doc[i].tag)]
        ELSE doc[i]]

\* the counts per kind, the total and the master-present flag of a tracks dict
TrackCounts(t) ==
    [audio |-> Len(t.audio_tracks), midi |-> Len(t.midi_tracks),
     return |-> Len(t.return_tracks), group |-> Len(t.group_tracks),
     total_count |-> t.total_count, master |-> t.master_track.type # "none"]

\* C4: a document and the same document with its track elements unqualified
\* have the same per-kind track counts, total_count and master-present flag.
C4_TrackCountsNamespaceInvariant ==
    Extracted =>
        TrackCounts(result.extractable_data.tracks)
            = TrackCounts(extract_tracks(UnqualifyTracks(als.doc)))

\* a document with a namespace-qualified audio track and a qualified master track
C4_Witness ==
    /\ Extracted
    /\ \E i \in 1..Len(als.doc) : als.doc[i].tag = Qualified(UriOdd, <<"Audio", "Track">>)
    /\ \E i \in 1..Len(als.doc) : als.doc[i].tag = Qualified(UriLive, <<"Master", "Track">>)
    /\ result.extractable_data.tracks.total_count = 1
    /\ result.extractable_data.tracks.master_track.type = "master"

\* the document with the namespace URI of every qualified element replaced by
\* uri, or taken off when uri is empty
Requalified(doc, uri) ==
    [i \in 1..Len(doc) |->
        IF Head(doc[i].tag) = "{"
        THEN [doc[i] EXCEPT !.tag = Tag(uri, Unqualified(doc[i].tag))]
        ELSE doc[i]]

\* the tag-derived fields of the extracted data
TagDerived(d) ==
    [tracks |-> d.tracks, devices |-> d.devices, plugins |-> d.plugins,
     samples |-> d.samples, clips |-> d.clips, automation |-> d.automation,
     export_count |-> d.export_info.export_count,
     render_settings |-> d.export_info.render_settings,
     backup_count |-> d.backup_info.backup_count,
     tempo |-> d.project_info.tempo,
     time_signature |-> d.project_info.time_signature,
     scenes |-> d.project_info.scenes, scene_count |-> d.project_info.scene_count,
     annotation |-> d.project_info.annotation]

\* C5: two documents that differ only in the namespace URI attached to their
\* elements yield the same value for every tag-derived field.
C5_FieldsNamespaceInvariant ==
    Extracted =>
        \A uri \in {<<>>, UriLive, UriOdd} :
            TagDerived(extractable_data(Requalified(als.doc, uri)))
                = TagDerived(result.extractable_data)

C7_FailedReadLeavesNoFeatures ==
    (pc = "returned" /\ als.kind \in GzipFailures \cup ParseFailures) =>
        /\ result.metadata = EmptyDict
        /\ result.structure = EmptyDict
        /\ result.extractable_data = EmptyDict
        /\ "error" \in DOMAIN result

\* a payload that is not markup has been analyzed: the record is empty but for
\* the error
C7_Witness ==
    /\ pc = "returned"
    /\ als.kind = "bad_xml"
    /\ result.extractable_data = EmptyDict
    /\ result.error = "not well-formed (invalid token)"

----------------------------------------------------------------------------
(* Properties of analyze_project, under Spec *)

\* the record analyze_file makes of the k-th discovered backup, taken alone
AloneRecord(k) == analyze_file(project.files[results.backup_files[k]]).value

HasError(r) == "error" \in DOMAIN r

\* C9: batch isolation in analyze_project.  No failure to decompress or parse
\* a file leaves analyze_project as an exception; the records made so far are
\* those of the first discovered backups, one each and in discovery order, and
\* each is the record the file gets when analysed alone, whatever became of
\* its siblings; and analyze_project returns only when every discovered
\* backup has its record, so the files after a failing one are analysed.
C9_BatchIsolation ==
    /\ pc # "raised"
    /\ pc \in {"analyze_backups", "done"} =>
        /\ results.backup_files = find_backup_files(project.files)
        /\ Len(results.backup_analyses) <= Len(results.backup_files)
        /\ \A k \in 1..Len(results.backup_analyses) :
            results.backup_analyses[k] = AloneRecord(k)
    /\ pc = "done" => Len(results.backup_analyses) = Len(results.backup_files)

\* analyze_project has returned, a backup that failed is followed by one that
\* was analysed, and one that was analysed by one that failed
C9_Witness ==
    /\ pc = "done"
    /\ \E i, j \in 1..Len(results.backup_analyses) :
        /\ i < j
        /\ HasError(results.backup_analyses[i])
        /\ ~HasError(results.backup_analyses[j])
        /\ results.backup_analyses[j].extractable_data # EmptyDict
    /\ \E i, j \in 1..Len(results.backup_analyses) :
        /\ i < j
        /\ ~HasError(results.backup_analyses[i])
        /\ HasError(results.backup_analyses[j])

----------------------------------------------------------------------------
(* Properties of the similarity analyzer, under SpecSim *)

\* C10: the score is symmetric.  Once both directions of a pair are scored
\* under one weight configuration, similarity(A, B) and similarity(B, A) have
\* the same score, whatever fields are absent in one record or both.
C10_ScoreSymmetric ==
    pc = "both" => sim.result.score = sim.swapped.score

\* both directions are scored for a pair where the reference lacks tempo,
\* length and plugins, the candidate has them, and the score is not 0
C10_Witness ==
    /\ pc = "both"
    /\ ~sim.reference.tempo.has /\ sim.candidate.tempo.has
    /\ ~sim.reference.arrangement_length.has /\ sim.candidate.arrangement_length.has
    /\ sim.reference.plugins.v = {} /\ sim.candidate.plugins.v # {}
    /\ sim.reference.track_count # sim.candidate.track_count
    /\ sim.result.score # Zero
    /\ sim.result.score # One

\* a record with some content
NonEmpty(a) ==
    \/ a.plugins.v # {} \/ a.devices.v # {}
    \/ a.tempo.has \/ a.arrangement_length.has \/ a.track_count > 0

InUnitInterval(x) == RLeq(Zero, x) /\ RLeq(x, One)

WeighingDims ==
    {d \in Counted(sim.result.dimensions, sim.config) : sim.config.weights[d] > 0}

----------------------------------------------------------------------------
(* Properties of find_similar_projects, under SpecFind *)

\* the score of the candidate with an id against the reference
ScoreOf(id) ==
    similarity(similar.reference, similar.candidates[id], similar.config).score

\* the ids of the candidates scored at or above the minimum
PassingIds ==
    {id \in 1..Len(similar.scored) :
        RLeq(similar.min_similarity, similar.scored[id].similarity_score)}

ReturnedIds == {similar.returned[k].project_id : k \in 1..Len(similar.returned)}

\* C12: once find_similar_projects has returned, the list has at most top_n
\* entries, each entry is a candidate of the pool with its own score, that
\* score is at least min_similarity, the scores do not increase along the
\* list, and the list of an empty pool is empty.
C12_AtMostTopNPassingSorted ==
    pc = "returned" =>
        /\ Len(similar.scored) = Len(similar.candidates)
        /\ \A id \in 1..Len(similar.candidates) :
            /\ similar.scored[id].project_id = id
            /\ similar.scored[id].similarity_score = ScoreOf(id)
        /\ Len(similar.returned) <= similar.top_n
        /\ \A k \in 1..Len(similar.returned) :
            /\ similar.returned[k].project_id \in 1..Len(similar.candidates)
            /\ similar.returned[k].similarity_score = ScoreOf(similar.returned[k].project_id)
            /\ similar.returned[k].project_name =
                   similar.candidates[similar.returned[k].project_id].name
            /\ RLeq(similar.min_similarity, similar.returned[k].similarity_score)
        /\ \A k \in 1..(Len(similar.returned) - 1) :
            RLeq(similar.returned[k + 1].similarity_score, similar.returned[k].similarity_score)
        /\ similar.candidates = <<>> => similar.returned = <<>>

\* a pool with a candidate below the minimum and more passing candidates than
\* top_n, of different scores, has been ranked
C12_Witness ==
    /\ pc = "returned"
    /\ similar.top_n > 0
    /\ Len(similar.returned) = similar.top_n
    /\ Cardinality(PassingIds) > similar.top_n
    /\ \E id \in 1..Len(similar.candidates) : id \notin PassingIds
    /\ \E i, j \in PassingIds :
        similar.scored[i].similarity_score # similar.scored[j].similarity_score

\* the orders in which a pool of n candidates can be supplied
SupplyOrders(n) == {f \in [1..n -> 1..n] : \A i, j \in 1..n : f[i] = f[j] => i = j}

\* what find_similar_projects returns when the pool is supplied in order f:
\* ScoreAll scores every candidate on its own, so the scored entries come in
\* order f too
ReturnedFor(f) ==
    RankAndCut([k \in 1..Len(similar.scored) |-> similar.scored[f[k]]],
               similar.top_n, similar.min_similarity)

\* the list is the first top_n of the passing candidates in rank order
FirstTopNOfRanked ==
    /\ ReturnedIds \subseteq PassingIds
    /\ Len(similar.returned) =
           (IF similar.top_n < Cardinality(PassingIds) THEN similar.top_n
            ELSE Cardinality(PassingIds))
    /\ \A k \in 1..Len(similar.returned) :
           similar.returned[k] = similar.scored[similar.returned[k].project_id]
    /\ \A k, l \in 1..Len(similar.returned) :
           k < l =>
               /\ similar.returned[k].project_id # similar.returned[l].project_id
               /\ RLeq(similar.returned[l].similarity_score, similar.returned[k].similarity_score)
               /\ similar.returned[l].similarity_score = similar.returned[k].similarity_score
                      => ~StrLess(similar.returned[l].project_name,
                                  similar.returned[k].project_name)
    /\ \A id \in PassingIds \ ReturnedIds : \A k \in 1..Len(similar.returned) :
           ~RanksBefore(similar.scored[id], similar.returned[k])

TwinsPass ==
    \E i, j \in PassingIds :
        /\ i # j
        /\ similar.scored[i].similarity_score = similar.scored[j].similarity_score
        /\ similar.candidates[i].name = similar.candidates[j].name

----------------------------------------------------------------------------
(* Properties of the recommendation engine, under SpecRecommend *)

Recommended == recs.returned.recommendations

PoolIds == {recs.candidate_pool[k].id : k \in 1..Len(recs.candidate_pool)}

\* C14: once recommend has returned, no recommendation has an id of
\* exclude_ids, no id is recommended twice, there are at most n_recommendations
\* entries, and every recommendation is a candidate of the pool.
C14_NoExcludedNoRepeatAtMostN ==
    pc = "returned" =>
        /\ \A k \in 1..Len(Recommended) :
            /\ Recommended[k].item_id \notin recs.exclude_ids
            /\ Recommended[k].item_id \in PoolIds
        /\ \A k, l \in 1..Len(Recommended) :
            Recommended[k].item_id = Recommended[l].item_id => k = l
        /\ Len(Recommended) <= recs.n_recommendations

\* a pool that holds an excluded candidate and another candidate twice has
\* been ranked, and the candidate that came twice is recommended
C14_Witness ==
    /\ pc = "returned"
    /\ recs.exclude_ids \cap PoolIds # {}
    /\ \E k, l \in 1..Len(recs.candidate_pool) :
        /\ k # l
        /\ recs.candidate_pool[k].id = recs.candidate_pool[l].id
        /\ \E m \in 1..Len(Recommended) : Recommended[m].item_id = recs.candidate_pool[k].id
    /\ Len(Recommended) = recs.n_recommendations

\* the ids of the pool whose record carries an error field
ErrorIds ==
    {recs.candidate_pool[k].id : k \in {l \in 1..Len(recs.candidate_pool) :
                                            "error" \in DOMAIN recs.candidate_pool[l]}}

\* the ids of the pool whose record has no plugins, devices, tempo or length
BareIds ==
    {recs.candidate_pool[k].id : k \in {l \in 1..Len(recs.candidate_pool) :
        /\ "error" \notin DOMAIN recs.candidate_pool[l]
        /\ recs.candidate_pool[l].plugins.v = {} /\ recs.candidate_pool[l].devices.v = {}
        /\ ~recs.candidate_pool[l].tempo.has
        /\ ~recs.candidate_pool[l].arrangement_length.has}}

\* a record with an id and a name and nothing else
EmptyRecord(id, name) ==
    project_to_dict(id, name, NoneSet, NoneSet, NoneNum, <<0, 0, 0>>, NoneNum)

\* the recommendations for the pool without the candidate with an id
RecommendedWithout(id) ==
    recommend(recs.project, SelectSeq(recs.candidate_pool, LAMBDA c : c.id # id),
              recs.n_recommendations, recs.exclude_ids, recs.config).recommendations

\* s begins t
IsPrefix(s, t) == Len(s) <= Len(t) /\ SubSeq(t, 1, Len(s)) = s

----------------------------------------------------------------------------
(* Properties of the overlap dimension, under SpecSim *)

\* x is the fraction of shared elements among all elements of A and B, and 0
\* when there are none
IsJaccardOf(x, A, B) ==
    IF A \cup B = {} THEN x = Zero
    ELSE x.n * Cardinality(A \cup B) = x.d * Cardinality(A \cap B)

OverlapOnly(config) ==
    /\ config.weights.plugins > 0
    /\ \A d \in Range(Dims) \ {"plugins"} : config.weights[d] = 0

\* C16: the overlap dimensions are the Jaccard overlap of the two sets, 0 for
\* two empty sets; for {X.vst, Y.vst} and {Y.vst, Z.vst} the overlap is
\* exactly 1/3, and with overlap-only weights the score of that pair is
\* strictly between 0 and 1.
C16_JaccardOverlap ==
    pc # "start" =>
        /\ IsJaccardOf(sim.result.dimensions.plugins.value,
                       sim.reference.plugins.v, sim.candidate.plugins.v)
        /\ IsJaccardOf(sim.result.dimensions.devices.value,
                       sim.reference.devices.v, sim.candidate.devices.v)
        /\ (sim.reference.plugins.v = {"X.vst", "Y.vst"}
            /\ sim.candidate.plugins.v = {"Y.vst", "Z.vst"}) =>
                /\ sim.result.dimensions.plugins.value = [n |-> 1, d |-> 3]
                /\ OverlapOnly(sim.config) =>
                    /\ sim.result.score # Zero /\ sim.result.score # One
                    /\ InUnitInterval(sim.result.score)

\* {X.vst, Y.vst} against {Y.vst, Z.vst} with the same tempo and tracks has
\* been scored under overlap-only weights
C16_Witness ==
    /\ pc = "scored"
    /\ sim.reference.plugins.v = {"X.vst", "Y.vst"}
    /\ sim.candidate.plugins.v = {"Y.vst", "Z.vst"}
    /\ sim.reference.tempo = sim.candidate.tempo /\ sim.reference.tempo.has
    /\ sim.reference.track_count = sim.candidate.track_count
    /\ sim.reference.audio_tracks = sim.candidate.audio_tracks
    /\ sim.reference.devices.v = {} /\ sim.candidate.devices.v = {}
    /\ OverlapOnly(sim.config)
    /\ sim.result.score = [n |-> 1, d |-> 3]

----------------------------------------------------------------------------
(* Properties of the song name generator, under SpecNames *)

\* C17: at every point of generate_song_names, and so in the list returned,
\* there are at most count names, all names differ, no name has a word
\* twice, and no word, letter case aside, is in two names.
C17_NamesAndWordsUnique ==
    /\ Len(names.result) <= names.count
    /\ \A k, l \in 1..Len(names.result) :
        k # l =>
            /\ names.result[k] # names.result[l]
            /\ Range(Lower(names.result[k])) \cap Range(Lower(names.result[l])) = {}
    /\ \A k \in 1..Len(names.result) :
        \A i, j \in 1..Len(names.result[k]) :
            i # j => LowerTok(names.result[k][i]) # LowerTok(names.result[k][j])

\* two names were returned, one of them ends in a phrase, and an attempt was
\* thrown away on the way
C17_Witness ==
    /\ pc = "returned"
    /\ Len(names.result) = 2
    /\ names.attempts > 2
    /\ \E k \in 1..2 :
        /\ Len(names.result[k]) = 3
        /\ SubSeq(names.result[k], 2, 3) = <<"First", "Light">>

----------------------------------------------------------------------------
(* Properties of the update checker, under SpecChecker *)

\* C18: no signal is emitted before the reply has finished, and once
\* _on_finished has run for it exactly one signal was emitted, one of
\* update_available, no_update_available and check_failed, and no exception
\* left the slot, whatever the reply was.
C18_ExactlyOneSignal ==
    /\ pc # "finished" => checker.emitted = <<>>
    /\ pc = "finished" =>
        /\ Len(checker.emitted) = 1
        /\ checker.emitted[1].signal \in
               {"update_available", "no_update_available", "check_failed"}
        /\ ~checker.escaped

\* a release with a newer tag and an asset for the platform led to
\* update_available with the link of that asset
C18_Witness ==
    /\ pc = "finished"
    /\ checker.platform = "darwin"
    /\ ~checker.reply.error
    /\ checker.reply.body.kind = "json"
    /\ checker.emitted = <<Signal("update_available",
                                  <<<<"0", ".", "3", ".", "1">>, <<"https://", "release">>,
                                    <<"https://", "dmg">>>>)>>

----------------------------------------------------------------------------
(* Properties of the audio scan worker, under SpecScan *)

\* a directory name the scan is meant to leave out
ExcludedName(name) == name \in exclude_patterns \/ Head(name) = "."

\* the places of the directories below the location on the path of a file
DirsBelowLocation(path) == (Len(scan._location_path) + 1)..(Len(path) - 1)

\* C19: no file_found is emitted for a file that lies, at any depth, inside a
\* directory below the scanned location that is named Backup, Samples, .git,
\* Ableton Project Info, __pycache__ or node_modules, or whose name starts
\* with a dot.
C19_NoFileFoundUnderExcluded ==
    \A path \in scan.file_found :
        \A i \in DirsBelowLocation(path) : ~ExcludedName(path[i])

----------------------------------------------------------------------------
(* Properties of the Live detector, under SpecLive *)

\* the digits x starts with, as a number; 0 when it starts with none
LeadingNumber(x) == IntOf(BeforeLetters(x))

\* the (major, minor, patch) of a version string: the numbers its first three
\* dotted parts start with, missing parts being 0
MajorMinorPatch(version) ==
    LET xs == Split(version, ".")
    IN  FirstN(PadToThree([k \in 1..Len(xs) |-> LeadingNumber(xs[k])]), 3)

\* C20: get_versions returns the detected versions newest first: a version
\* with a higher (major, minor, patch) never comes after one with a lower
\* (major, minor, patch), for versions of any length, with or without a beta
\* or rc suffix.
C20_NewestFirst ==
    pc = "returned" =>
        \A i, j \in 1..Len(live.returned) :
            i < j => ~TupleGreater(MajorMinorPatch(live.returned[j].version),
                                   MajorMinorPatch(live.returned[i].version))

----------------------------------------------------------------------------
(* Properties of the device, clip and value extraction, under SpecFile *)

\* the elements of the document that are devices: the tag without its
\* namespace contains "Device" and is not "DeviceChain"
DeviceElements(doc) ==
    {k \in 1..Len(doc) :
        /\ Contains(Unqualified(doc[k].tag), <<"Device">>)
        /\ Unqualified(doc[k].tag) # <<"Device", "Chain">>}

\* C21: device_count is the number of elements of the whole tree whose
\* namespace-stripped tag contains "Device" and is not "DeviceChain", a device
\* inside a device counting for itself, and device_types is the set of the
\* distinct tags of these elements.
C21_DeviceCountAndTypes ==
    Extracted =>
        /\ result.extractable_data.devices.device_count
               = Cardinality(DeviceElements(als.doc))
        /\ result.extractable_data.devices.device_types
               = {Unqualified(als.doc[k].tag) : k \in DeviceElements(als.doc)}

\* a device inside a device of the same tag: two counted, one type
C21_Witness ==
    /\ Extracted
    /\ Len(als.doc) = 3
    /\ als.doc[2].tag = <<"Plugin", "Device">>
    /\ als.doc[3].tag = <<"Plugin", "Device">>
    /\ als.doc[3].parent = 2
    /\ result.extractable_data.devices.device_count = 2
    /\ result.extractable_data.devices.device_types = {<<"Plugin", "Device">>}

\* the elements whose tag without its namespace is exactly name
ElementsNamed(doc, name) == {k \in 1..Len(doc) : Unqualified(doc[k].tag) = name}

\* C22: audio_clips is the number of elements whose local name is exactly
\* "AudioClip", midi_clips the number of those named exactly "MidiClip"; an
\* element whose tag only contains one of the two is not counted; clip_count
\* is the sum of the two.
C22_ClipsCountedByEquality ==
    Extracted =>
        LET clips == result.extractable_data.clips IN
        /\ clips.audio_clips = Cardinality(ElementsNamed(als.doc, <<"Audio", "Clip">>))
        /\ clips.midi_clips = Cardinality(ElementsNamed(als.doc, <<"Midi", "Clip">>))
        /\ clips.clip_count = clips.audio_clips + clips.midi_clips

\* the document with the text of every element that has text and no Value
\* attribute held in a Value attribute instead
TextAsValue(doc) ==
    [k \in 1..Len(doc) |->
        IF ~doc[k].Value.has /\ doc[k].text.has
        THEN [doc[k] EXCEPT !.Value = doc[k].text, !.text = NoneStr]
        ELSE doc[k]]

\* the fields of a record that hold resolved values: tempo, annotation, track
\* names, clip names and scene names
ResolvedFields(d) ==
    [tempo |-> d.project_info.tempo,
     annotation |-> d.project_info.annotation,
     scenes |-> d.project_info.scenes,
     clip_names |-> d.clips.clip_names,
     tracks |-> d.tracks]

\* C23: tempo, annotation, track name, clip name and scene name take the Value
\* attribute of the element if it has one and its text otherwise: an element
\* with text and no Value attribute yields for each of the five what the same
\* element with that text as its Value attribute yields.
C23_UniformValueResolution ==
    Extracted =>
        ResolvedFields(result.extractable_data)
            = ResolvedFields(extractable_data(TextAsValue(als.doc)))

----------------------------------------------------------------------------
(* Properties of the backup set, under Spec *)

\* the files of the project folder that are backups: those of the Backup
\* folder and those named like a backup, wherever they lie
Discovered ==
    {k \in 1..Len(project.files) :
        project.files[k].dir = "Backup" \/ LooksLikeBackup(project.files[k].name)}

ComparedPaths(c) ==
    IF c = EmptyDict THEN {}
    ELSE {c.track_changes[i].backup : i \in 1..Len(c.track_changes)}
         \cup {c.device_changes[i].backup : i \in 1..Len(c.device_changes)}
         \cup {c.plugin_changes[i].backup : i \in 1..Len(c.plugin_changes)}
         \cup {c.timing_changes[i].backup : i \in 1..Len(c.timing_changes)}

\* C30: the main file is never one of its own backups: analyze_project does
\* not list it in backup_files, does not analyse it as a backup and compares
\* it with no record of itself, whatever the main file is called.
C30_MainNotItsOwnBackup ==
    (pc \in {"analyze_backups", "done"} /\ results.main_file # 0) =>
        /\ results.main_file \notin Range(results.backup_files)
        /\ \A k \in 1..Len(results.backup_analyses) :
            results.backup_analyses[k].file_path
                # project.files[results.main_file].path
        /\ project.files[results.main_file].path \notin ComparedPaths(results.comparison)

\* run() is over: it has returned, or an exception has left it
RunOver == pc \in {"done", "raised"}

\* C25: every run emits scan_complete exactly once, after its last
\* file_found, with the number of file_found signals of the run as its count:
\* whatever the directories hold, after stop(), and after any failure of a
\* directory listing or of a file stat.
C25_CompleteOnceWithCount ==
    /\ RunOver =>
        /\ Len(scan.scan_complete) = 1
        /\ scan.scan_complete[1] = Cardinality(scan.file_found)
    /\ ~RunOver => scan.scan_complete = <<>>

\* C28: a stop request is never lost: once stop() has been called, before
\* run() has begun or during the scan, at most one more file_found is emitted.
C28_StopNeverLost == scan.stop_called => scan.found_after_stop <= 1

----------------------------------------------------------------------------
(* Properties of the version comparison, under SpecNewer *)

\* the version is 1.0.<component> and the component is a number followed by
\* a suffix that begins with a letter
CarriesSuffix(version) ==
    /\ Len(version) > 5
    /\ SubSeq(version, 1, 4) = <<"1", ".", "0", ".">>
    /\ \A i \in 5..Len(version) : version[i] # "."
    /\ version[5] \in {"1", "7", "8"}
    /\ \E i \in 6..Len(version) :
        /\ version[i] = "b"
        /\ \A j \in 5..(i - 1) : version[j] \in {"1", "7", "8"}

\* C26: of a component with a suffix _parse_version keeps the number before
\* the suffix ("7b1" is 7), so 1.0.7b1 is not newer than 1.0.8; no version is
\* newer than itself, and of two versions never each is newer than the other.
C26_NumericPartOnly ==
    pc = "compared_versions" =>
        /\ CarriesSuffix(checker.latest) =>
            checker.parsed = <<1, 0, LeadingNumber(SubSeq(checker.latest, 5, Len(checker.latest)))>>
        /\ (checker.latest = <<"1", ".", "0", ".", "7", "b", "1">>
                /\ checker.current = <<"1", ".", "0", ".", "8">>) => ~checker.newer
        /\ ~checker.newer_than_itself
        /\ ~(checker.newer /\ checker.newer_swapped)


-----------------------------------------------------------------------------
(* Properties of the recommendations panel, under SpecPanel *)

\* C27: whenever _refresh_recommendations has returned (no project selected,
\* project no longer in the database, no other projects, refreshed, or an
\* exception), the progress bar is not visible and the session the method
\* opened is closed
C27_ProgressHiddenSessionClosed ==
    recs.returned # "not called" =>
        /\ ~recs.progress_bar
        /\ recs.open_sessions = 0


-----------------------------------------------------------------------------
(* Properties of the audio exports view, under SpecView *)

\* the workers whose signals are connected to the view
ConnectedWorkers == {w \in 1..Len(scan.workers) : scan.workers[w].connected}

\* C29: at most one scan worker is connected to the view; no slot of the view
\* runs for a worker the view has stopped; while the view has a worker, every
\* row of the table was found by it; and _unmapped_count is the number of rows
C29_OnlyNewestWorkerFillsTable ==
    /\ Cardinality(ConnectedWorkers) <= 1
    /\ ConnectedWorkers \subseteq {scan.view._scan_worker}
    /\ ~scan.view.stale_slot_ran
    /\ scan.view._scan_worker # NoWorker =>
            \A i \in 1..Len(scan.view.rows) :
                scan.view.rows[i].worker = scan.view._scan_worker
    /\ scan.view._unmapped_count = Len(scan.view.rows)

\* after a rescan an emission of the stopped worker has been ignored, and the
\* newest worker has filled a row
C29_Witness ==
    /\ scan.view.stale_ignored
    /\ scan.view._scan_worker = 2
    /\ Len(scan.view.rows) > 0
    /\ scan.workers[1].stopped

====
